---- MODULE Spec2Model ----
(***************************************************************************)
(* Data-contract store, schema change detector and trust score engine of   *)
(* src/main.py (DataContractEngine, TrustScoreEngine, GovernanceEngine).   *)
(*                                                                         *)
(* Python values are encoded as follows.                                   *)
(*   - an optional value (a dict key that may be absent, or None) is a     *)
(*     sequence of length 0 or 1: <<>> is absent/None, <<v>> is v;         *)
(*   - a list is a sequence; a dict is a sequence of [key, val] records in *)
(*     insertion order with pairwise distinct keys (Python dicts keep      *)
(*     insertion order);                                                   *)
(*   - datetime.now() reads the variable now, a clock that only moves      *)
(*     forward (action Tick).  All reads of one handler fall in one tick.  *)
(***************************************************************************)
EXTENDS Integers, Sequences, FiniteSets, TLC

VARIABLES
    contracts,   \* DataContractEngine.contracts: dict fqn -> DataContract
    now,         \* the wall clock read by datetime.now()
    call,        \* the last call made on the engine and its arguments
    ret,         \* what that call returned
    asset,       \* the table record handed to calculate_trust_score
    trust,       \* the DataTrustScore it returned, if it was called
    composites,  \* two composite scores handed to the tier assignment
    levels,      \* the trust levels assigned to them, if they were
    catalog,     \* the list of table records handed to the GovernanceEngine
    scores,      \* the list of DataTrustScore handed to get_trust_score_summary
    report,      \* what the GovernanceEngine or the summary returned, if called
    threads      \* the position and the locals of each thread inside register_consumer

vars == <<contracts, now, call, ret, asset, trust, composites, levels,
          catalog, scores, report, threads>>
storeVars == <<contracts, now, call, ret, threads>>
scoreVars == <<asset, trust>>
tierVars == <<composites, levels>>
reportVars == <<catalog, scores, report>>

(***************************************************************************)
(* Bounds of the model.                                                    *)
(***************************************************************************)
MaxLog == 3      \* change_log entries kept in the whole store
MaxTime == 1     \* last tick of the clock
MaxCols == 2     \* columns of a table handed to the detector

(***************************************************************************)
(* Generic helpers for the encodings above.                                *)
(***************************************************************************)
None == <<>>
Some(v) == <<v>>

\* dict.get(key, default) on an optional value
Get(opt, default) == IF opt = None THEN default ELSE opt[1]

\* Python truthiness of an optional string
Truthy(opt) == opt # None /\ opt[1] # ""

\* Python truthiness of an optional number
TruthyNum(opt) == opt # None /\ opt[1] # 0

Range(s) == {s[i] : i \in 1..Len(s)}

RECURSIVE SumLen(_, _)
SumLen(S, len) ==
    IF S = {} THEN 0
    ELSE LET x == CHOOSE y \in S : TRUE IN len[x] + SumLen(S \ {x}, len)

\* dict helpers: d is a sequence of [key, val]
Keys(d) == {d[i].key : i \in 1..Len(d)}
KeySeq(d) == [i \in 1..Len(d) |-> d[i].key]
Lookup(d, k) == (CHOOSE i \in 1..Len(d) : d[i].key = k)
Val(d, k) == d[Lookup(d, k)].val
\* d[k] = v : an existing key keeps its position, a new key goes last
DictSet(d, k, v) ==
    IF k \in Keys(d) THEN [d EXCEPT ![Lookup(d, k)].val = v]
    ELSE Append(d, [key |-> k, val |-> v])

(***************************************************************************)
(* Inputs: the tables of the catalog and the arguments of the calls.       *)
(***************************************************************************)
FQNs == {"Deliver.raw.orders", "Plan.raw.items"}

\* fqn.split(".")[0] and the table's "name", on the FQNs of the model
Database(fqn) ==
    CASE fqn = "Deliver.raw.orders" -> "Deliver"
      [] fqn = "Plan.raw.items" -> "Plan"
      [] fqn \in {"Make.raw.parts_" \o ToString(i) : i \in 3..10} -> "Make"
      [] OTHER -> fqn
TableName(fqn) ==
    CASE fqn = "Deliver.raw.orders" -> "orders"
      [] fqn = "Plan.raw.items" -> "items"
      [] OTHER -> fqn

\* hashlib.md5(fqn.encode()).hexdigest(), on the FQNs of the model
Md5Hex(fqn) ==
    CASE fqn = "Deliver.raw.orders" -> "c4e41ca022ed353bddca8fb73ae68bef"
      [] fqn = "Plan.raw.items" -> "a7adf0c8e1eca954efd9b914cf1cf0a1"
      [] OTHER -> "d41d8cd98f00b204e9800998ecf8427e"
\* s[:12] of a hex digest of the model
First12(s) ==
    CASE s = "c4e41ca022ed353bddca8fb73ae68bef" -> "c4e41ca022ed"
      [] s = "a7adf0c8e1eca954efd9b914cf1cf0a1" -> "a7adf0c8e1ec"
      [] OTHER -> "d41d8cd98f00"

\* a column of a table record; dataType is an optional key
Column(n, t) ==
    [name |-> n, dataType |-> t, constraint |-> "", description |-> "", tags |-> <<>>]

\* the columns a catalog table may carry: each name with the types it may take
ColumnPool ==
    { Column("order_id", Some("INT")),
      Column("status", Some("VARCHAR")), Column("status", Some("INT")),
      Column("amount", None) }

DistinctNames(cols) ==
    \A i, j \in 1..Len(cols) : cols[i].name = cols[j].name => i = j

\* the table of the scenario of spec section 8: order_id INT, status INT, amount DECIMAL
ScenarioColumns ==
    << Column("order_id", Some("INT")), Column("status", Some("INT")),
       Column("amount", Some("DECIMAL")) >>

\* column lists handed to the detector: up to MaxCols columns, names unique
DetectColumns ==
    { cols \in UNION { [1..n -> ColumnPool] : n \in 0..MaxCols } : DistinctNames(cols) }
        \cup {ScenarioColumns}

\* column lists of the tables the store's operations are driven with
StoreColumns ==
    { << Column("order_id", Some("INT")), Column("status", Some("VARCHAR")) >>,
      << Column("status", Some("INT")), Column("amount", None) >> }

Table(fqn, cols) ==
    [fullyQualifiedName |-> fqn, name |-> TableName(fqn), columns |-> cols, tags |-> <<>>]

Statuses == {"draft", "review", "active", "deprecated"}
\* update_contract_status takes any string: the four statuses and one that is none of them
StatusValues == Statuses \cup {"archived"}
Users == {"alice.data"}
ConsumerNames == {"ML", "ML (eu)"}
ConsumerContacts == {"ml@co", "eu) (ml@co"}

(***************************************************************************)
(* DataContractEngine.                                                     *)
(***************************************************************************)
\* "PII" in str(col.get("tags", [])): a substring test on the printed tag list,
\* decided here for the tag names of the model
MentionsPII(tags) ==
    \E i \in 1..Len(tags) : tags[i] \in {"PII", "PII.Sensitive"}

\* one value of schema_def, built from one column
SchemaEntry(col) ==
    [dataType |-> Get(col.dataType, "UNKNOWN"),
     nullable |-> col.constraint # "NOT NULL",
     description |-> col.description,
     isPII |-> MentionsPII(col.tags)]

\* the dict comprehension {col["name"]: ... for col in columns}
RECURSIVE SchemaDef(_)
SchemaDef(columns) ==
    IF columns = <<>> THEN <<>>
    ELSE LET n == Len(columns)
         IN  DictSet(SchemaDef(SubSeq(columns, 1, n - 1)),
                     columns[n].name, SchemaEntry(columns[n]))

\* an id that also hashes the creation time
ContractId_Timestamped(fqn, owner, t) == First12(Md5Hex(fqn)) \o "-" \o ToString(t)

\* the id of a contract: the first 12 hex digits of the md5 of the FQN
ContractId(fqn, owner, t) == First12(Md5Hex(fqn))

\* the DataContract built by create_contract at time t
NewContract(table, owner, classification, description, business_purpose, quality_rules, sla_hours, contains_pii, t) ==
    LET fqn == table.fullyQualifiedName
    IN  [id |-> ContractId(fqn, owner, t),
         table_fqn |-> fqn,
         table_name |-> table.name,
         database |-> Database(fqn),
         version |-> "1.0.0",
         status |-> "draft",
         owner |-> owner,
         created_date |-> t,
         last_modified |-> t,
         schema_definition |-> SchemaDef(table.columns),
         quality_rules |-> quality_rules,
         sla_requirements |-> [freshness_hours |-> Some(sla_hours)],
         classification |-> classification,
         tags |-> table.tags,
         description |-> description,
         business_purpose |-> business_purpose,
         registered_consumers |-> <<>>,
         downstream_tables |-> <<>>,
         retention_days |-> None,
         contains_pii |-> contains_pii,
         compliance_requirements |-> <<>>,
         change_log |-> << [timestamp |-> t, action |-> "created", user |-> owner,
                            details |-> "Contract created"] >>,
         approval_history |-> <<>>]

\* self.contracts.setdefault(fqn, contract): a store that keeps the contract it has
StorePut_KeepFirst(store, fqn, contract) ==
    [f \in DOMAIN store \cup {fqn} |-> IF f \in DOMAIN store THEN store[f] ELSE contract]

\* self.contracts[fqn] = contract
StorePut(store, fqn, contract) ==
    [f \in DOMAIN store \cup {fqn} |-> IF f = fqn THEN contract ELSE store[f]]

\* f"{consumer_name} ({consumer_contact})"
ConsumerInfo(consumer_name, consumer_contact) ==
    consumer_name \o " (" \o consumer_contact \o ")"

\* the details written the other way round
StatusDetails_Reversed(old_status, new_status) == new_status \o " -> " \o old_status

\* f"{old_status} -> {new_status}" (the source writes the arrow as one character)
StatusDetails(old_status, new_status) == old_status \o " -> " \o new_status

\* update_contract_status recording no approval
StatusUpdated_Unapproved(contract, new_status, user, notes, t) ==
    [contract EXCEPT
        !.status = new_status,
        !.last_modified = t,
        !.change_log = Append(@, [timestamp |-> t, action |-> "status_change",
                                  user |-> user,
                                  details |-> StatusDetails(contract.status, new_status),
                                  notes |-> notes])]

\* update_contract_status recording an approval whatever the new status is
StatusUpdated_ApprovesAll(contract, new_status, user, notes, t) ==
    [contract EXCEPT
        !.status = new_status,
        !.last_modified = t,
        !.change_log = Append(@, [timestamp |-> t, action |-> "status_change",
                                  user |-> user,
                                  details |-> StatusDetails(contract.status, new_status),
                                  notes |-> notes]),
        !.approval_history = Append(@, [timestamp |-> t, approver |-> user, notes |-> notes])]

\* the contract after update_contract_status at time t
StatusUpdated(contract, new_status, user, notes, t) ==
    LET logged ==
            [contract EXCEPT
                !.status = new_status,
                !.last_modified = t,
                !.change_log = Append(@, [timestamp |-> t, action |-> "status_change",
                                          user |-> user,
                                          details |-> StatusDetails(contract.status, new_status),
                                          notes |-> notes])]
    IN  IF new_status = "active"
        THEN [logged EXCEPT !.approval_history =
                 Append(@, [timestamp |-> t, approver |-> user, notes |-> notes])]
        ELSE logged

\* register_consumer also listing the consumer as a downstream table
ConsumerRegistered_Downstream(contract, consumer_name, consumer_contact, t) ==
    LET consumer_info == ConsumerInfo(consumer_name, consumer_contact)
    IN  IF consumer_info \notin Range(contract.registered_consumers)
        THEN [contract EXCEPT
                 !.registered_consumers = Append(@, consumer_info),
                 !.downstream_tables = Append(@, consumer_name),
                 !.change_log = Append(@, [timestamp |-> t, action |-> "consumer_registered",
                                           user |-> consumer_contact,
                                           details |-> "Consumer registered: " \o consumer_name])]
        ELSE contract

\* register_consumer without the membership test
ConsumerRegistered_NoCheck(contract, consumer_name, consumer_contact, t) ==
    [contract EXCEPT
        !.registered_consumers = Append(@, ConsumerInfo(consumer_name, consumer_contact)),
        !.change_log = Append(@, [timestamp |-> t, action |-> "consumer_registered",
                                  user |-> consumer_contact,
                                  details |-> "Consumer registered: " \o consumer_name])]

\* register_consumer starting the change_log over with its own entry
ConsumerRegistered_Relogged(contract, consumer_name, consumer_contact, t) ==
    LET consumer_info == ConsumerInfo(consumer_name, consumer_contact)
    IN  IF consumer_info \notin Range(contract.registered_consumers)
        THEN [contract EXCEPT
                 !.registered_consumers = Append(@, consumer_info),
                 !.change_log = << [timestamp |-> t, action |-> "consumer_registered",
                                    user |-> consumer_contact,
                                    details |-> "Consumer registered: " \o consumer_name] >>]
        ELSE contract

\* the contract after register_consumer at time t
ConsumerRegistered(contract, consumer_name, consumer_contact, t) ==
    LET consumer_info == ConsumerInfo(consumer_name, consumer_contact)
    IN  IF consumer_info \notin Range(contract.registered_consumers)
        THEN [contract EXCEPT
                 !.registered_consumers = Append(@, consumer_info),
                 !.change_log = Append(@, [timestamp |-> t, action |-> "consumer_registered",
                                           user |-> consumer_contact,
                                           details |-> "Consumer registered: " \o consumer_name])]
        ELSE contract

\* current_columns = {col["name"]: col for col in current_table.get("columns", [])}
RECURSIVE CurrentColumns(_)
CurrentColumns(columns) ==
    IF columns = <<>> THEN <<>>
    ELSE LET n == Len(columns)
         IN  DictSet(CurrentColumns(SubSeq(columns, 1, n - 1)), columns[n].name, columns[n])

SchemaChange(fqn, change_type, column_name, old_value, new_value, t, severity, impact_level, requires_approval) ==
    [table_fqn |-> fqn, change_type |-> change_type, column_name |-> column_name,
     old_value |-> old_value, new_value |-> new_value, detected_at |-> t,
     severity |-> severity, impact_level |-> impact_level,
     requires_approval |-> requires_approval]

\* first loop: contract columns missing from the table
RemovedChanges(fqn, contract_columns, current_columns, t) ==
    LET gone(e) == e.key \notin Keys(current_columns)
        change(e) == SchemaChange(fqn, "removed", e.key, Some(e.val.dataType), None, t,
                                  "breaking", "high", TRUE)
    IN  LET kept == SelectSeq(contract_columns, gone)
        IN  [i \in 1..Len(kept) |-> change(kept[i])]

\* the second loop reporting the raw dataType key, absent when the column has none
AddedChanges_NoDefault(fqn, contract_columns, current_columns, t) ==
    LET new(e) == e.key \notin Keys(contract_columns)
        change(e) == SchemaChange(fqn, "added", e.key, None, e.val.dataType, t,
                                  "non-breaking", "low", FALSE)
    IN  LET kept == SelectSeq(current_columns, new)
        IN  [i \in 1..Len(kept) |-> change(kept[i])]

\* second loop: table columns missing from the contract
AddedChanges(fqn, contract_columns, current_columns, t) ==
    LET new(e) == e.key \notin Keys(contract_columns)
        change(e) == SchemaChange(fqn, "added", e.key, None,
                                  Some(Get(e.val.dataType, "UNKNOWN")), t,
                                  "non-breaking", "low", FALSE)
    IN  LET kept == SelectSeq(current_columns, new)
        IN  [i \in 1..Len(kept) |-> change(kept[i])]

\* the third loop reading the current type without the "UNKNOWN" default
TypeChanges_NoDefault(fqn, contract_columns, current_columns, t) ==
    LET new_type(e) == Get(Val(current_columns, e.key).dataType, "")
        differs(e) == e.key \in Keys(current_columns) /\ e.val.dataType # new_type(e)
        change(e) == SchemaChange(fqn, "type_changed", e.key, Some(e.val.dataType),
                                  Some(new_type(e)), t, "breaking", "high", TRUE)
    IN  LET kept == SelectSeq(contract_columns, differs)
        IN  [i \in 1..Len(kept) |-> change(kept[i])]

\* third loop: columns of both whose recorded and current type differ
TypeChanges(fqn, contract_columns, current_columns, t) ==
    LET new_type(e) == Get(Val(current_columns, e.key).dataType, "UNKNOWN")
        differs(e) == e.key \in Keys(current_columns) /\ e.val.dataType # new_type(e)
        change(e) == SchemaChange(fqn, "type_changed", e.key, Some(e.val.dataType),
                                  Some(new_type(e)), t, "breaking", "high", TRUE)
    IN  LET kept == SelectSeq(contract_columns, differs)
        IN  [i \in 1..Len(kept) |-> change(kept[i])]

\* detect_schema_changes(fqn, current_table) on the store, at time t
DetectedChanges(store, fqn, current_table, t) ==
    IF fqn \notin DOMAIN store THEN <<>>
    ELSE LET current_columns == CurrentColumns(current_table.columns)
             contract_columns == store[fqn].schema_definition
         IN  RemovedChanges(fqn, contract_columns, current_columns, t)
                 \o AddedChanges(fqn, contract_columns, current_columns, t)
                 \o TypeChanges(fqn, contract_columns, current_columns, t)

(***************************************************************************)
(* The state machine of the store: one action per method of the engine.    *)
(***************************************************************************)
\* call.again tells that the call before this one was the same call with the same
\* arguments
NoCall ==
    [op |-> "none", fqn |-> "", columns |-> <<>>, new_status |-> "",
     consumer_name |-> "", consumer_contact |-> "", again |-> FALSE]
Called(previous, c) == [c EXCEPT !.again = (c = [previous EXCEPT !.again = FALSE])]
NoRet == [ok |-> FALSE, contract |-> None, changes |-> <<>>]

\* change_log entries held by the whole store
LogTotal(store) == SumLen(DOMAIN store, [f \in DOMAIN store |-> Len(store[f].change_log)])

\* the threads that call register_consumer on the engine
Threads == {1, 2}

\* a thread that has not called yet
IdleThread ==
    [pc |-> "idle", fqn |-> "", consumer_name |-> "", consumer_contact |-> "",
     ok |-> FALSE, alone |-> FALSE]

\* no thread is inside register_consumer
NoThreads == threads = [t \in Threads |-> IdleThread]

\* no table is being scored, no composite is being classified
NoScoring ==
    /\ asset = None
    /\ trust = None
    /\ composites = <<0, 0>>
    /\ levels = None

\* no report was asked for
NoReport ==
    /\ catalog = <<>>
    /\ scores = <<>>
    /\ report = None

Init ==
    /\ contracts = << >>
    /\ now = 0
    /\ call = NoCall
    /\ ret = NoRet
    /\ NoScoring
    /\ NoReport
    /\ NoThreads

Tick ==
    /\ now < MaxTime
    /\ now' = now + 1
    /\ UNCHANGED <<contracts, call, ret, scoreVars, tierVars, reportVars, threads>>

CreateContract(table, owner, contains_pii) ==
    LET fqn == table.fullyQualifiedName
        contract == NewContract(table, owner, "internal", "Orders of the delivery domain",
                                "Supports Deliver business operations", <<>>, 24,
                                contains_pii, now)
    IN  /\ contracts' = StorePut(contracts, fqn, contract)
        /\ LogTotal(contracts') <= MaxLog
        /\ call' = Called(call, [NoCall EXCEPT !.op = "create_contract", !.fqn = fqn,
                                                !.columns = table.columns])
        /\ ret' = [NoRet EXCEPT !.contract = Some(contract)]
        /\ UNCHANGED <<now, scoreVars, tierVars, reportVars, threads>>

UpdateContractStatus(fqn, new_status, user, notes) ==
    /\ call' = Called(call, [NoCall EXCEPT !.op = "update_contract_status", !.fqn = fqn,
                                            !.new_status = new_status])
    /\ IF fqn \notin DOMAIN contracts
       THEN /\ ret' = [NoRet EXCEPT !.ok = FALSE]
            /\ UNCHANGED contracts
       ELSE /\ contracts' = [contracts EXCEPT
                                ![fqn] = StatusUpdated(@, new_status, user, notes, now)]
            /\ ret' = [NoRet EXCEPT !.ok = TRUE]
    /\ LogTotal(contracts') <= MaxLog
    /\ UNCHANGED <<now, scoreVars, tierVars, reportVars, threads>>

\* register_consumer answering True whether or not the contract exists
RegisterConsumer_AlwaysTrue(fqn, consumer_name, consumer_contact) ==
    /\ call' = Called(call, [NoCall EXCEPT !.op = "register_consumer", !.fqn = fqn,
                                            !.consumer_name = consumer_name,
                                            !.consumer_contact = consumer_contact])
    /\ IF fqn \notin DOMAIN contracts
       THEN UNCHANGED contracts
       ELSE contracts' = [contracts EXCEPT
                             ![fqn] = ConsumerRegistered(@, consumer_name,
                                                         consumer_contact, now)]
    /\ ret' = [NoRet EXCEPT !.ok = TRUE]
    /\ LogTotal(contracts') <= MaxLog
    /\ UNCHANGED <<now, scoreVars, tierVars, reportVars, threads>>

RegisterConsumer(fqn, consumer_name, consumer_contact) ==
    /\ call' = Called(call, [NoCall EXCEPT !.op = "register_consumer", !.fqn = fqn,
                                            !.consumer_name = consumer_name,
                                            !.consumer_contact = consumer_contact])
    /\ IF fqn \notin DOMAIN contracts
       THEN /\ ret' = [NoRet EXCEPT !.ok = FALSE]
            /\ UNCHANGED contracts
       ELSE /\ contracts' = [contracts EXCEPT
                                ![fqn] = ConsumerRegistered(@, consumer_name,
                                                            consumer_contact, now)]
            /\ ret' = [NoRet EXCEPT !.ok = TRUE]
    /\ LogTotal(contracts') <= MaxLog
    /\ UNCHANGED <<now, scoreVars, tierVars, reportVars, threads>>

\* detect_schema_changes writing the table's columns back into the contract
DetectSchemaChanges_WriteBack(fqn, current_table) ==
    /\ call' = Called(call, [NoCall EXCEPT !.op = "detect_schema_changes", !.fqn = fqn,
                                            !.columns = current_table.columns])
    /\ ret' = [NoRet EXCEPT !.changes = DetectedChanges(contracts, fqn, current_table, now)]
    /\ IF fqn \in DOMAIN contracts
       THEN contracts' = [contracts EXCEPT
                             ![fqn].schema_definition = SchemaDef(current_table.columns)]
       ELSE UNCHANGED contracts
    /\ UNCHANGED <<now, scoreVars, tierVars, reportVars, threads>>

DetectSchemaChanges(fqn, current_table) ==
    /\ call' = Called(call, [NoCall EXCEPT !.op = "detect_schema_changes", !.fqn = fqn,
                                            !.columns = current_table.columns])
    /\ ret' = [NoRet EXCEPT !.changes = DetectedChanges(contracts, fqn, current_table, now)]
    /\ UNCHANGED <<contracts, now, scoreVars, tierVars, reportVars, threads>>

Next ==
    \/ \E f \in FQNs, cols \in StoreColumns, o \in Users : CreateContract(Table(f, cols), o, FALSE)
    \/ \E f \in FQNs, s \in StatusValues, u \in Users : UpdateContractStatus(f, s, u, "")
    \/ \E f \in FQNs, n \in ConsumerNames, c \in ConsumerContacts : RegisterConsumer(f, n, c)
    \/ \E f \in FQNs, cols \in StoreColumns : DetectSchemaChanges(f, Table(f, cols))

Spec == Init /\ [][Next]_vars

\* the detector driven with every table of DetectColumns, on the contract of one
\* table snapshot
DetectFQN == "Deliver.raw.orders"

NextDetect ==
    \/ Tick
    \/ \E cols \in DetectColumns, o \in Users : CreateContract(Table(DetectFQN, cols), o, FALSE)
    \/ \E cols \in DetectColumns : DetectSchemaChanges(DetectFQN, Table(DetectFQN, cols))

SpecDetect == Init /\ [][NextDetect]_vars

(***************************************************************************)
(* TrustScoreEngine.  Scores are exact rationals: a score is held as a     *)
(* whole number of 1/Unit points, Unit being a common multiple of every    *)
(* column count of the model, so that len(typed)/len(columns)*30 is exact. *)
(* A composite, a sum of score * weight with the weights in hundredths, is *)
(* held as a whole number of 1/(100*Unit) points.  The source computes the *)
(* same sums in binary floating point.  The advisory texts (improvements,  *)
(* strengths) a scorer returns beside its score are not modelled.          *)
(***************************************************************************)
RECURSIVE Gcd(_, _)
Gcd(a, b) == IF b = 0 THEN a ELSE Gcd(b, a % b)
RECURSIVE LcmUpTo(_)
LcmUpTo(n) == IF n <= 1 THEN 1 ELSE LET m == LcmUpTo(n - 1) IN (m * n) \div Gcd(m, n)

Unit == LcmUpTo(MaxCols)
Points(p) == p * Unit
Min(a, b) == IF a <= b THEN a ELSE b

\* WEIGHTS with the weight of data quality mistyped as 0.35
WEIGHTS_Heavy ==
    [data_quality |-> 35, contract_availability |-> 20, freshness |-> 15,
     documentation |-> 15, lineage_usage |-> 15, security_compliance |-> 10]

\* WEIGHTS, in hundredths
WEIGHTS ==
    [data_quality |-> 25, contract_availability |-> 20, freshness |-> 15,
     documentation |-> 15, lineage_usage |-> 15, security_compliance |-> 10]

\* TRUST_LEVELS, in the order the dict is written
TRUST_LEVELS ==
    << [min_score |-> 90, max_score |-> 100, level |-> "Platinum"],
       [min_score |-> 75, max_score |-> 90, level |-> "Gold"],
       [min_score |-> 60, max_score |-> 75, level |-> "Silver"],
       [min_score |-> 40, max_score |-> 60, level |-> "Bronze"],
       [min_score |-> 0, max_score |-> 40, level |-> "Needs Attention"] >>

\* a whole number of points as a composite
CompositePoints(p) == p * 100 * Unit

\* min_score <= composite < max_score
InBin(bin, composite) ==
    /\ CompositePoints(bin.min_score) <= composite
    /\ composite < CompositePoints(bin.max_score)

\* the loop over TRUST_LEVELS: the first bin that holds the composite, else the default
TrustLevel(composite) ==
    IF \E i \in 1..Len(TRUST_LEVELS) : InBin(TRUST_LEVELS[i], composite)
    THEN LET first == CHOOSE i \in 1..Len(TRUST_LEVELS) :
                          /\ InBin(TRUST_LEVELS[i], composite)
                          /\ \A j \in 1..(i - 1) : ~InBin(TRUST_LEVELS[j], composite)
         IN  TRUST_LEVELS[first].level
    ELSE "Needs Attention"

\* table.get("owner", {}).get("name") is truthy
HasOwner(table) == Truthy(table.owner)

CalculateDataQualityScore(table, store) ==
    LET fqn == table.fullyQualifiedName
        columns == table.columns
        rules == IF fqn \in DOMAIN store /\ store[fqn].quality_rules # <<>>
                 THEN Points(30) ELSE 0
        typed_columns == SelectSeq(columns,
                             LAMBDA c : c.dataType \notin {Some(""), Some("UNKNOWN")})
        type_coverage == IF columns # <<>> /\ typed_columns # <<>>
                         THEN (Len(typed_columns) * Points(30)) \div Len(columns) ELSE 0
        schema == IF columns # <<>> THEN Points(20) ELSE 0
    IN  Min(Points(20) + rules + schema + type_coverage, Points(100))

\* status_scores giving a contract in review the bonus of a draft
StatusScore_ReviewAsDraft(status) ==
    CASE status = "active" -> 35
      [] status = "review" -> 10
      [] status = "draft" -> 10
      [] status = "deprecated" -> 5
      [] OTHER -> 0

\* status_scores.get(contract.status, 0)
StatusScore(status) ==
    CASE status = "active" -> 35
      [] status = "review" -> 25
      [] status = "draft" -> 10
      [] status = "deprecated" -> 5
      [] OTHER -> 0

CalculateContractAvailabilityScore(table, store) ==
    LET fqn == table.fullyQualifiedName
    IN  IF fqn \notin DOMAIN store THEN 0
        ELSE LET contract == store[fqn]
                 sla == IF TruthyNum(contract.sla_requirements.freshness_hours)
                        THEN Points(15) ELSE 0
                 schema == IF contract.schema_definition # <<>> THEN Points(10) ELSE 0
             IN  Min(Points(40) + Points(StatusScore(contract.status)) + sla + schema,
                     Points(100))

\* updatedAt is an optional [valid, minutes]: a timestamp the source can convert
\* (valid) counts minutes since the epoch; t is datetime.now() in minutes
HasUpdatedAt(table) ==
    table.updatedAt # None /\ ~(table.updatedAt[1].valid /\ table.updatedAt[1].minutes = 0)

\* calculate_freshness_score without the last branch: a stale table scores 50
CalculateFreshnessScore_NeverStale(table, t) ==
    IF ~HasUpdatedAt(table) THEN 0
    ELSE IF ~table.updatedAt[1].valid THEN 0
    ELSE LET minutes_since_update == t - table.updatedAt[1].minutes
         IN  IF minutes_since_update <= 1 * 60 THEN Points(100)
             ELSE IF minutes_since_update <= 6 * 60 THEN Points(95)
             ELSE IF minutes_since_update <= 24 * 60 THEN Points(85)
             ELSE IF minutes_since_update <= 48 * 60 THEN Points(70)
             ELSE Points(50)

\* calculate_freshness_score comparing with < where the source has <=
CalculateFreshnessScore_Exclusive(table, t) ==
    IF ~HasUpdatedAt(table) THEN 0
    ELSE IF ~table.updatedAt[1].valid THEN 0
    ELSE LET minutes_since_update == t - table.updatedAt[1].minutes
         IN  IF minutes_since_update < 1 * 60 THEN Points(100)
             ELSE IF minutes_since_update < 6 * 60 THEN Points(95)
             ELSE IF minutes_since_update < 24 * 60 THEN Points(85)
             ELSE IF minutes_since_update < 48 * 60 THEN Points(70)
             ELSE IF minutes_since_update < 168 * 60 THEN Points(50)
             ELSE Points(20)

CalculateFreshnessScore(table, t) ==
    IF ~HasUpdatedAt(table) THEN 0
    ELSE IF ~table.updatedAt[1].valid THEN 0
    ELSE LET minutes_since_update == t - table.updatedAt[1].minutes
         IN  IF minutes_since_update <= 1 * 60 THEN Points(100)
             ELSE IF minutes_since_update <= 6 * 60 THEN Points(95)
             ELSE IF minutes_since_update <= 24 * 60 THEN Points(85)
             ELSE IF minutes_since_update <= 48 * 60 THEN Points(70)
             ELSE IF minutes_since_update <= 168 * 60 THEN Points(50)
             ELSE Points(20)

\* calculate_documentation_score reading the description with the placeholder the
\* catalog page shows for a table that has none
CalculateDocumentationScore_Placeholder(table, store) ==
    LET fqn == table.fullyQualifiedName
        description == Get(table.description, "No description available")
        described == IF description # "" /\ Len(description) > 20 THEN Points(30)
                     ELSE IF description # "" THEN Points(15)
                     ELSE 0
        columns == table.columns
        documented_columns == SelectSeq(columns, LAMBDA c : c.description # "")
        doc_coverage == IF columns # <<>>
                        THEN (Len(documented_columns) * Points(30)) \div Len(columns) ELSE 0
        tagged == IF table.tags # <<>> THEN Points(15) ELSE 0
        purpose == IF fqn \in DOMAIN store /\ store[fqn].business_purpose # ""
                      /\ Len(store[fqn].business_purpose) > 10
                   THEN Points(15) ELSE 0
        owned == IF HasOwner(table) THEN Points(10) ELSE 0
    IN  Min(described + doc_coverage + tagged + purpose + owned, Points(100))

CalculateDocumentationScore(table, store) ==
    LET fqn == table.fullyQualifiedName
        description == Get(table.description, "")
        described == IF description # "" /\ Len(description) > 20 THEN Points(30)
                     ELSE IF description # "" THEN Points(15)
                     ELSE 0
        columns == table.columns
        documented_columns == SelectSeq(columns, LAMBDA c : c.description # "")
        doc_coverage == IF columns # <<>>
                        THEN (Len(documented_columns) * Points(30)) \div Len(columns) ELSE 0
        tagged == IF table.tags # <<>> THEN Points(15) ELSE 0
        purpose == IF fqn \in DOMAIN store /\ store[fqn].business_purpose # ""
                      /\ Len(store[fqn].business_purpose) > 10
                   THEN Points(15) ELSE 0
        owned == IF HasOwner(table) THEN Points(10) ELSE 0
    IN  Min(described + doc_coverage + tagged + purpose + owned, Points(100))

CalculateLineageUsageScore(table, store) ==
    LET fqn == table.fullyQualifiedName
        downstream_count == Len(store[fqn].downstream_tables)
        downstream == IF fqn \notin DOMAIN store THEN 0
                      ELSE IF downstream_count > 5 THEN Points(35)
                      ELSE IF downstream_count > 2 THEN Points(25)
                      ELSE IF downstream_count > 0 THEN Points(15)
                      ELSE 0
        consumer_count == Len(store[fqn].registered_consumers)
        consumers == IF fqn \notin DOMAIN store THEN 0
                     ELSE IF consumer_count >= 3 THEN Points(35)
                     ELSE IF consumer_count >= 1 THEN Points(20)
                     ELSE 0
        row_count == Get(table.rowCount, 0)
        rows == IF row_count > 100000 THEN Points(15)
                ELSE IF row_count > 1000 THEN Points(10)
                ELSE IF row_count > 0 THEN Points(5)
                ELSE 0
        active == IF HasUpdatedAt(table) THEN Points(15) ELSE 0
    IN  Min(downstream + consumers + rows + active, Points(100))

\* "Classification." in tag_fqn, and tag_fqn.split("Classification.")[-1].lower(),
\* on the tag names of the model
IsClassificationTag(tag_fqn) ==
    tag_fqn \in {"Classification.Internal", "Classification.Public", "Classification."}
ClassificationLevel(tag_fqn) ==
    CASE tag_fqn = "Classification.Internal" -> "internal"
      [] tag_fqn = "Classification.Public" -> "public"
      [] OTHER -> ""

\* the scan of the tags: the level of the first classification tag, if any
Classification(tags) ==
    IF \E i \in 1..Len(tags) : IsClassificationTag(tags[i])
    THEN LET first == CHOOSE i \in 1..Len(tags) :
                          /\ IsClassificationTag(tags[i])
                          /\ \A j \in 1..(i - 1) : ~IsClassificationTag(tags[j])
         IN  Some(ClassificationLevel(tags[first]))
    ELSE None

CalculateSecurityComplianceScore(table, store) ==
    LET fqn == table.fullyQualifiedName
        classified == IF Truthy(Classification(table.tags)) THEN Points(30) ELSE 0
        has_pii == \E i \in 1..Len(table.columns) : MentionsPII(table.columns[i].tags)
        pii == IF ~has_pii THEN Points(20)
               ELSE IF fqn \notin DOMAIN store THEN 0
               ELSE IF ~store[fqn].contains_pii THEN Points(10)
               ELSE IF TruthyNum(store[fqn].retention_days) THEN Points(25) + Points(15)
               ELSE Points(25)
        steward == IF HasOwner(table) THEN Points(20) ELSE 0
        compliance == IF fqn \in DOMAIN store /\ store[fqn].compliance_requirements # <<>>
                      THEN Points(10) ELSE 0
    IN  Min(classified + pii + steward + compliance, Points(100))

\* the weighted sum of calculate_trust_score, in 1/(100*Unit) points
Composite(quality_score, contract_score, freshness_score, doc_score, lineage_score, security_score) ==
    quality_score * WEIGHTS.data_quality
        + contract_score * WEIGHTS.contract_availability
        + freshness_score * WEIGHTS.freshness
        + doc_score * WEIGHTS.documentation
        + lineage_score * WEIGHTS.lineage_usage
        + security_score * WEIGHTS.security_compliance

\* the DataTrustScore of calculate_trust_score(table, contracts) at time t
CalculateTrustScore(table, store, t) ==
    LET fqn == table.fullyQualifiedName
        quality_score == CalculateDataQualityScore(table, store)
        contract_score == CalculateContractAvailabilityScore(table, store)
        freshness_score == CalculateFreshnessScore(table, t)
        doc_score == CalculateDocumentationScore(table, store)
        lineage_score == CalculateLineageUsageScore(table, store)
        security_score == CalculateSecurityComplianceScore(table, store)
        composite == Composite(quality_score, contract_score, freshness_score, doc_score,
                               lineage_score, security_score)
    IN  [fqn |-> fqn,
         table_name |-> table.name,
         database |-> IF fqn # "" THEN Database(fqn) ELSE "Unknown",
         data_quality_score |-> quality_score,
         contract_availability_score |-> contract_score,
         freshness_score |-> freshness_score,
         documentation_score |-> doc_score,
         lineage_usage_score |-> lineage_score,
         security_compliance_score |-> security_score,
         composite_trust_score |-> composite,
         trust_level |-> TrustLevel(composite),
         owner |-> table.owner,
         classification |-> Classification(table.tags),
         last_assessed |-> t]

(***************************************************************************)
(* The tier assignment applied to two composites of the range 0..100:      *)
(* every whole number of points, and the values next to each.              *)
(***************************************************************************)
TierSamples ==
    { CompositePoints(p) + d : p \in 0..100, d \in {-1, 0, 1} }
        \cap (0..CompositePoints(100))

InitTier ==
    /\ contracts = << >> /\ now = 0 /\ call = NoCall /\ ret = NoRet
    /\ asset = None /\ trust = None
    /\ composites \in TierSamples \X TierSamples
    /\ levels = None
    /\ NoReport
    /\ NoThreads

AssignTiers ==
    /\ levels = None
    /\ levels' = Some(<<TrustLevel(composites[1]), TrustLevel(composites[2])>>)
    /\ UNCHANGED <<storeVars, scoreVars, composites, reportVars>>

SpecTier == InitTier /\ [][AssignTiers]_vars

(***************************************************************************)
(* calculate_trust_score applied to one table and one contract map.  The   *)
(* inputs are every table of ScoreTables with each contract map of         *)
(* CornerContracts, and every contract map of ScoreContracts with each     *)
(* table of CornerTables.                                                  *)
(***************************************************************************)
ScoreFQN == "Deliver.raw.orders"

\* datetime.now() when the score is taken, in minutes since the epoch
ScoreTime == 201 * 60

ScoreColumn(n, t, d, tags) == [Column(n, t) EXCEPT !.description = d, !.tags = tags]

ScoreColumnPool ==
    { ScoreColumn("email", Some("VARCHAR"), "Customer email", <<"PII.Sensitive">>),
      ScoreColumn("status", Some("UNKNOWN"), "Order status", <<>>),
      Column("order_id", Some("INT")),
      Column("amount", None) }

ScoreColumns == UNION { [1..n -> ScoreColumnPool] : n \in 0..MaxCols }

\* minutes between the last update and ScoreTime: the last minute of each freshness
\* bin, 200 hours, and two times that are not a whole number of hours
ElapsedSamples == { h * 60 : h \in {1, 6, 24, 48, 168, 200} } \cup {90, 168 * 60 + 30}

\* updatedAt: absent, not convertible, or some time before ScoreTime
UpdatedAtSamples ==
    { None, Some([valid |-> FALSE, minutes |-> 0]) }
        \cup { Some([valid |-> TRUE, minutes |-> ScoreTime - e]) : e \in ElapsedSamples }

ScoreTable(cols, owner, tags, description, updatedAt, rowCount) ==
    [fullyQualifiedName |-> ScoreFQN, name |-> TableName(ScoreFQN), columns |-> cols,
     owner |-> owner, tags |-> tags, description |-> description,
     updatedAt |-> updatedAt, rowCount |-> rowCount]

ScoreTables ==
    { ScoreTable(cols, owner, tags, description, updatedAt, rowCount) :
        cols \in ScoreColumns,
        owner \in {None, Some("alice.data")},
        tags \in {<<>>, <<"Tier.Tier1">>, <<"Classification.Internal">>},
        description \in {None, Some("Orders"),
                         Some("This table contains Deliver data")},
        updatedAt \in UpdatedAtSamples,
        rowCount \in {None, Some(500), Some(100001)} }

\* a table with nothing but its name, and a table with every field at its best
BareTable == ScoreTable(<<>>, None, <<>>, None, None, None)
FullTable ==
    ScoreTable(<< ScoreColumn("email", Some("VARCHAR"), "Customer email",
                              <<"PII.Sensitive">>) >>,
               Some("alice.data"), <<"Classification.Internal">>,
               Some("This table contains Deliver data"),
               Some([valid |-> TRUE, minutes |-> ScoreTime - 60]), Some(100001))
CornerTables == {BareTable, FullTable}

\* a contract of the table as a caller may hand it to the scorers: the contract
\* create_contract builds, with the fields the scorers read set freely
ScoreContract(status, quality_rules, sla, cols, purpose, downstream, consumers, contains_pii, retention, compliance) ==
    [NewContract(Table(ScoreFQN, cols), "alice.data", "internal", "Orders", purpose,
                 quality_rules, 24, contains_pii, 0)
        EXCEPT !.status = status,
               !.sla_requirements = [freshness_hours |-> sla],
               !.downstream_tables = [i \in 1..downstream |-> "Plan.raw.items"],
               !.registered_consumers = [i \in 1..consumers |-> ConsumerInfo("ML", "ml@co")],
               !.retention_days = retention,
               !.compliance_requirements = compliance]

NullCheck == [type |-> "null_check"]

ScoreContracts ==
    { << >> } \cup
    { (ScoreFQN :> ScoreContract(status, quality_rules, sla, cols, purpose, downstream,
                                 consumers, contains_pii, retention, compliance)) :
        status \in StatusValues,
        quality_rules \in {<<>>, <<NullCheck>>},
        sla \in {None, Some(24)},
        cols \in {<<>>, <<Column("order_id", Some("INT"))>>},
        purpose \in {"Ops", "Supports Deliver business operations"},
        downstream \in {0, 3, 6},
        consumers \in {0, 1, 3},
        contains_pii \in BOOLEAN,
        retention \in {None, Some(365)},
        compliance \in {<<>>, <<"GDPR">>} }

\* no contract, the contract a create_contract call leaves, and the best contract
FreshContract ==
    ScoreContract("draft", <<>>, Some(24), <<Column("order_id", Some("INT"))>>,
                  "Supports Deliver business operations", 0, 0, FALSE, None, <<>>)
BestContract ==
    ScoreContract("active", <<NullCheck>>, Some(24), <<Column("order_id", Some("INT"))>>,
                  "Supports Deliver business operations", 6, 3, TRUE, Some(365), <<"GDPR">>)
CornerContracts == { << >>, (ScoreFQN :> FreshContract), (ScoreFQN :> BestContract) }

InitScore ==
    /\ now = ScoreTime /\ call = NoCall /\ ret = NoRet
    /\ composites = <<0, 0>> /\ levels = None
    /\ NoReport
    /\ NoThreads
    /\ trust = None
    /\ \/ /\ asset \in { Some(t) : t \in ScoreTables }
          /\ contracts \in CornerContracts
       \/ /\ asset \in { Some(t) : t \in CornerTables }
          /\ contracts \in ScoreContracts

ScoreAsset ==
    /\ asset # None
    /\ trust = None
    /\ trust' = Some(CalculateTrustScore(asset[1], contracts, now))
    /\ UNCHANGED <<storeVars, asset, tierVars, reportVars>>

SpecScore == InitScore /\ [][ScoreAsset]_vars

(***************************************************************************)
(* Properties of the tier assignment and of the scores.                    *)
(***************************************************************************)
\* Needs Attention < Bronze < Silver < Gold < Platinum
Rank(level) ==
    CASE level = "Needs Attention" -> 0
      [] level = "Bronze" -> 1
      [] level = "Silver" -> 2
      [] level = "Gold" -> 3
      [] level = "Platinum" -> 4

\* C1: the tier is a non-decreasing function of the composite over 0..100: of two
\* composites the larger never gets the lower tier; and exactly 40, 60, 75 and 90
\* points are Bronze, Silver, Gold and Platinum.
C1_TierMonotone ==
    levels # None =>
        /\ composites[1] <= composites[2] => Rank(levels[1][1]) <= Rank(levels[1][2])
        /\ composites[1] = CompositePoints(40) => levels[1][1] = "Bronze"
        /\ composites[1] = CompositePoints(60) => levels[1][1] = "Silver"
        /\ composites[1] = CompositePoints(75) => levels[1][1] = "Gold"
        /\ composites[1] = CompositePoints(90) => levels[1][1] = "Platinum"

\* C2: every composite calculate_trust_score produces lies in one of the five bins,
\* so the default level is never the result of no bin matching.
C2_SomeBinMatches ==
    trust # None =>
        \E i \in 1..Len(TRUST_LEVELS) : InBin(TRUST_LEVELS[i], trust[1].composite_trust_score)

\* the six component scores of a DataTrustScore
Components(ts) ==
    << ts.data_quality_score, ts.contract_availability_score, ts.freshness_score,
       ts.documentation_score, ts.lineage_usage_score, ts.security_compliance_score >>

\* C3: each of the six component scores lies in [0,100], and the composite is
\* 0.25*quality + 0.20*contract + 0.15*freshness + 0.15*documentation
\* + 0.15*lineage + 0.10*security and lies in [0,100].
C3_ScoresInRange ==
    trust # None =>
        LET ts == trust[1]
            c == Components(ts)
        IN  /\ \A i \in 1..6 : 0 <= c[i] /\ c[i] <= Points(100)
            /\ ts.composite_trust_score =
                   25 * c[1] + 20 * c[2] + 15 * c[3] + 15 * c[4] + 15 * c[5] + 10 * c[6]
            /\ 0 <= ts.composite_trust_score
            /\ ts.composite_trust_score <= CompositePoints(100)

\* a table with a contract was scored and every component reached 100
C3_Witness ==
    /\ trust # None
    /\ ScoreFQN \in DOMAIN contracts
    /\ \A i \in 1..6 : Components(trust[1])[i] = Points(100)
    /\ trust[1].composite_trust_score = CompositePoints(100)

(***************************************************************************)
(* Properties of the schema change detector.                               *)
(***************************************************************************)
Names(cols) == {cols[i].name : i \in 1..Len(cols)}

\* the dataType string of the table's column n, "UNKNOWN" when it has none
TypeIn(cols, n) == Get((CHOOSE c \in Range(cols) : c.name = n).dataType, "UNKNOWN")

\* the column names the last detection reported with the given change_type
Reported(change_type) ==
    {ret.changes[i].column_name :
        i \in {j \in 1..Len(ret.changes) : ret.changes[j].change_type = change_type}}

\* the last call was a detection on a table that has a contract
DetectDone == call.op = "detect_schema_changes" /\ call.fqn \in DOMAIN contracts

\* C4: the detector puts every column name of the contract or of the table in
\* exactly one of removed, added, type_changed, unchanged: no name is reported twice,
\* removed are the names of the contract missing from the table, added the names of
\* the table missing from the contract, type_changed the names of both whose
\* dataType strings differ.
C4_ColumnsClassifiedOnce ==
    DetectDone =>
        LET S == contracts[call.fqn].schema_definition
            T == call.columns
        IN  /\ \A i, j \in 1..Len(ret.changes) :
                   ret.changes[i].column_name = ret.changes[j].column_name => i = j
            /\ \A i \in 1..Len(ret.changes) :
                   ret.changes[i].change_type \in {"removed", "added", "type_changed"}
            /\ Reported("removed") = Keys(S) \ Names(T)
            /\ Reported("added") = Names(T) \ Keys(S)
            /\ Reported("type_changed") =
                   {n \in Keys(S) \cap Names(T) : Val(S, n).dataType # TypeIn(T, n)}

\* a detection that found a removed column, a retyped column and an unchanged one
C4_Witness ==
    /\ DetectDone
    /\ Reported("removed") # {}
    /\ Reported("type_changed") # {}
    /\ \E n \in Keys(contracts[call.fqn].schema_definition) \cap Names(call.columns) :
           n \notin Reported("type_changed")

\* the fields a change of each kind must carry
WellClassified(change, S, T) ==
    LET n == change.column_name
    IN  CASE change.change_type = "removed" ->
                 /\ change.severity = "breaking" /\ change.impact_level = "high"
                 /\ change.requires_approval
                 /\ change.old_value = Some(Val(S, n).dataType)
                 /\ change.new_value = None
          [] change.change_type = "added" ->
                 /\ change.severity = "non-breaking" /\ change.impact_level = "low"
                 /\ ~change.requires_approval
                 /\ change.old_value = None
                 /\ change.new_value = Some(TypeIn(T, n))
          [] change.change_type = "type_changed" ->
                 /\ change.severity = "breaking" /\ change.impact_level = "high"
                 /\ change.requires_approval
                 /\ change.old_value = Some(Val(S, n).dataType)
                 /\ change.new_value = Some(TypeIn(T, n))
          [] OTHER -> FALSE

\* the contract records order_id INT, status VARCHAR and the table is the scenario's
Scenario ==
    /\ DetectDone
    /\ KeySeq(contracts[call.fqn].schema_definition) = <<"order_id", "status">>
    /\ Val(contracts[call.fqn].schema_definition, "order_id").dataType = "INT"
    /\ Val(contracts[call.fqn].schema_definition, "status").dataType = "VARCHAR"
    /\ call.columns = ScenarioColumns

\* C5: every reported change carries the severity, impact, approval flag and old and
\* new value of its kind; for the contract {order_id: INT, status: VARCHAR} and the
\* table {order_id: INT, status: INT, amount: DECIMAL} the result is one type_changed
\* for status, one added for amount and nothing else.
C5_ChangesWellClassified ==
    DetectDone =>
        /\ \A i \in 1..Len(ret.changes) :
               WellClassified(ret.changes[i], contracts[call.fqn].schema_definition,
                              call.columns)
        /\ Scenario =>
               /\ Len(ret.changes) = 2
               /\ Reported("type_changed") = {"status"}
               /\ Reported("added") = {"amount"}

\* the scenario was detected
C5_Witness == Scenario /\ Len(ret.changes) = 2

\* the step ends in a detection that repeats the call before it: same fqn, same
\* table, and no call on the store in between
RepeatedDetect ==
    /\ call.op = "detect_schema_changes"
    /\ call'.op = "detect_schema_changes"
    /\ call'.again

\* the changes without the time they were detected at
Undated(changes) == [i \in 1..Len(changes) |-> [changes[i] EXCEPT !.detected_at = 0]]

\* C6 as claimed: two detections with the same fqn, contract store and table return
\* equal lists, detected_at included.
C6_DetectTwiceEqual == [][RepeatedDetect => ret'.changes = ret.changes]_vars

\* C6 as amended: two detections with the same fqn, contract store and table return
\* lists of the same length that agree, position by position, in every field but
\* detected_at.
C6_DetectTwiceEqualUndated ==
    [][RepeatedDetect => Undated(ret'.changes) = Undated(ret.changes)]_vars

\* a detection repeated with the same arguments that reported changes
C6_Witness == DetectDone /\ call.again /\ ret.changes # <<>>

(***************************************************************************)
(* Properties of the contract store.                                       *)
(***************************************************************************)
NoDuplicates(list) == \A i, j \in 1..Len(list) : list[i] = list[j] => i = j

\* the step ends in a register_consumer call whose "name (contact)" string the
\* contract already lists
RegisteredAgain ==
    /\ call'.op = "register_consumer"
    /\ call'.fqn \in DOMAIN contracts
    /\ ConsumerInfo(call'.consumer_name, call'.consumer_contact)
           \in Range(contracts[call'.fqn].registered_consumers)

\* C7: no registered_consumers list ever holds the same "name (contact)" string
\* twice; registering a pair that is already listed returns true, leaves
\* registered_consumers unchanged and appends no change_log entry.
C7_ConsumersRegisteredOnce ==
    /\ [](\A f \in DOMAIN contracts : NoDuplicates(contracts[f].registered_consumers))
    /\ [][RegisteredAgain => ret'.ok /\ contracts' = contracts]_vars

\* the same pair was registered twice in a row on a contract, which lists it once
C7_Witness ==
    /\ call.op = "register_consumer"
    /\ call.again
    /\ call.fqn \in DOMAIN contracts
    /\ ret.ok
    /\ contracts[call.fqn].registered_consumers =
           << ConsumerInfo(call.consumer_name, call.consumer_contact) >>
    /\ Len(contracts[call.fqn].change_log) = 2

\* the last call was create_contract
CreateDone == call.op = "create_contract"

\* the contract create_contract leaves behind
FreshlyCreated(c) ==
    /\ c.status = "draft"
    /\ c.version = "1.0.0"
    /\ c.registered_consumers = <<>>
    /\ c.approval_history = <<>>
    /\ Len(c.change_log) = 1
    /\ c.change_log[1].action = "created"

\* C8: create_contract returns the contract it stores under the table's FQN; the
\* contract is a draft of version 1.0.0 with no consumers, no approvals, a change_log
\* of one 'created' entry and the table's column names as the keys of its
\* schema_definition; and the id of the contract of an FQN is the same after every
\* create for that FQN.
C8_CreateContract ==
    /\ [](CreateDone =>
              /\ call.fqn \in DOMAIN contracts
              /\ ret.contract = Some(contracts[call.fqn])
              /\ contracts[call.fqn].table_fqn = call.fqn
              /\ FreshlyCreated(contracts[call.fqn])
              /\ Keys(contracts[call.fqn].schema_definition) = Names(call.columns))
    /\ [][\A f \in DOMAIN contracts \cap DOMAIN contracts' :
              contracts'[f].id = contracts[f].id]_vars

\* a contract with columns was created again for its FQN, at a later time
C8_Witness ==
    /\ CreateDone
    /\ call.again
    /\ call.columns # <<>>
    /\ contracts[call.fqn].created_date > 0

\* the step ends in a create_contract call for an FQN that has a contract
CreatedAgain == call'.op = "create_contract" /\ call'.fqn \in DOMAIN contracts

\* C9: create_contract for an FQN that has a contract replaces it: the store keeps
\* its key set (so its size), the contract under that FQN is the newly built one,
\* and the contract under every other FQN is unchanged.
C9_CreateReplaces ==
    [][CreatedAgain =>
           /\ DOMAIN contracts' = DOMAIN contracts
           /\ FreshlyCreated(contracts'[call'.fqn])
           /\ ret'.contract = Some(contracts'[call'.fqn])
           /\ \A g \in DOMAIN contracts \ {call'.fqn} : contracts'[g] = contracts[g]]_vars

\* a contract was created twice in a row while another table had a contract
C9_Witness ==
    /\ CreateDone
    /\ call.again
    /\ Cardinality(DOMAIN contracts) = 2

\* C10: for an fqn without a contract, update_contract_status and register_consumer
\* return false, detect_schema_changes returns the empty list, and the store is left
\* as it was.
C10_NotFound ==
    [][call'.fqn \notin DOMAIN contracts =>
           /\ call'.op \in {"update_contract_status", "register_consumer"} => ~ret'.ok
           /\ call'.op = "detect_schema_changes" => ret'.changes = <<>>
           /\ call'.op \in {"update_contract_status", "register_consumer",
                            "detect_schema_changes"} => contracts' = contracts]_vars

\* a consumer was registered for a table without a contract, in a store that holds
\* the contract of another table
C10_Witness ==
    /\ call.op = "register_consumer"
    /\ call.fqn \notin DOMAIN contracts
    /\ DOMAIN contracts # {}
    /\ ~ret.ok

\* the step ends in an update_contract_status call for an FQN that has a contract
UpdatedExisting == call'.op = "update_contract_status" /\ call'.fqn \in DOMAIN contracts

\* the status_change entries of a log that record a change to active
ActiveUpdates(log) ==
    Cardinality({i \in 1..Len(log) :
                     /\ log[i].action = "status_change"
                     /\ \E old \in StatusValues : log[i].details = old \o " -> active"})

\* C11: update_contract_status on an existing contract accepts any status from any
\* status: it returns true, sets the status, appends one status_change entry
\* recording 'old -> new' to change_log, and appends one approval_history entry if
\* and only if the new status is active; so the length of approval_history is the
\* number of updates to active logged since the contract was created.
C11_StatusUpdates ==
    /\ [][UpdatedExisting =>
              LET f == call'.fqn
                  old == contracts[f]
                  new == contracts'[f]
              IN  /\ ret'.ok
                  /\ new.status = call'.new_status
                  /\ Len(new.change_log) = Len(old.change_log) + 1
                  /\ SubSeq(new.change_log, 1, Len(old.change_log)) = old.change_log
                  /\ new.change_log[Len(new.change_log)].action = "status_change"
                  /\ new.change_log[Len(new.change_log)].details =
                         old.status \o " -> " \o call'.new_status
                  /\ IF call'.new_status = "active"
                     THEN /\ Len(new.approval_history) = Len(old.approval_history) + 1
                          /\ SubSeq(new.approval_history, 1, Len(old.approval_history))
                                 = old.approval_history
                     ELSE new.approval_history = old.approval_history]_vars
    /\ [](\A f \in DOMAIN contracts :
              Len(contracts[f].approval_history) = ActiveUpdates(contracts[f].change_log))

\* a contract was activated twice, from active and from a status that is none of the
\* four
C11_Witness ==
    /\ call.op = "update_contract_status"
    /\ call.fqn \in DOMAIN contracts
    /\ ret.ok
    /\ Len(contracts[call.fqn].approval_history) = 1
    /\ Len(contracts[call.fqn].change_log) = 3
    /\ contracts[call.fqn].change_log[2].details = "draft -> archived"
    /\ contracts[call.fqn].change_log[3].details = "archived -> active"

IsPrefix(s, t) == Len(s) <= Len(t) /\ SubSeq(t, 1, Len(s)) = s

\* the logs of the contract of f are only extended by the step
LogsExtended(f) ==
    /\ f \in DOMAIN contracts'
    /\ IsPrefix(contracts[f].change_log, contracts'[f].change_log)
    /\ IsPrefix(contracts[f].approval_history, contracts'[f].approval_history)

\* C12 as claimed: across create_contract, update_contract_status and
\* register_consumer the change_log and approval_history stored under an FQN are only
\* extended, and an FQN that has a contract keeps one.
C12_LogsAppendOnly == [][\A f \in DOMAIN contracts : LogsExtended(f)]_vars

\* C12 as amended: update_contract_status, register_consumer and
\* detect_schema_changes only extend the logs stored under an FQN, and so does
\* create_contract for the other FQNs; create_contract for an FQN that has a contract
\* starts its logs over (one 'created' entry, no approval); an FQN that has a
\* contract keeps one.
C12_LogsAppendOnlyUnlessRecreated ==
    [][\A f \in DOMAIN contracts :
           IF call'.op = "create_contract" /\ call'.fqn = f
           THEN /\ f \in DOMAIN contracts'
                /\ Len(contracts'[f].change_log) = 1
                /\ contracts'[f].change_log[1].action = "created"
                /\ contracts'[f].approval_history = <<>>
           ELSE LogsExtended(f)]_vars

\* a contract whose logs were extended by an activation and by a registration
C12_Witness ==
    /\ call.op = "register_consumer"
    /\ call.fqn \in DOMAIN contracts
    /\ Len(contracts[call.fqn].change_log) = 3
    /\ contracts[call.fqn].change_log[3].action = "consumer_registered"
    /\ Len(contracts[call.fqn].approval_history) = 1

\* C13: the schema_definition of a contract is the snapshot create_contract took:
\* update_contract_status, register_consumer and detect_schema_changes leave it as it
\* is, also when the table handed to the detector has other columns.
C13_SchemaSnapshot ==
    /\ [](CreateDone => contracts[call.fqn].schema_definition = SchemaDef(call.columns))
    /\ [][call'.op \in {"update_contract_status", "register_consumer",
                        "detect_schema_changes"} =>
              /\ DOMAIN contracts' = DOMAIN contracts
              /\ \A f \in DOMAIN contracts :
                     contracts'[f].schema_definition = contracts[f].schema_definition]_vars

\* a detection reported the drift of a table whose columns are not the contract's
C13_Witness ==
    /\ DetectDone
    /\ ret.changes # <<>>
    /\ contracts[call.fqn].schema_definition # SchemaDef(call.columns)

(***************************************************************************)
(* GovernanceEngine: the counts and the gap lists of a catalog of tables   *)
(* under a contract map.  A percentage count / total * 100 is held as the  *)
(* exact fraction [num, den]; the source computes it in floating point.    *)
(***************************************************************************)
MaxTables == 2   \* tables of a catalog handed to the GovernanceEngine

\* the FQN of the i-th table of a catalog: FQNs are unique in a catalog
CatalogFQN(i) ==
    CASE i = 1 -> "Deliver.raw.orders"
      [] i = 2 -> "Plan.raw.items"
      [] OTHER -> "Make.raw.parts_" \o ToString(i)

CatalogTable(fqn, owner, description, tags, cols) ==
    [fullyQualifiedName |-> fqn, name |-> TableName(fqn), columns |-> cols,
     owner |-> owner, tags |-> tags, description |-> description,
     updatedAt |-> None, rowCount |-> None]

\* what a table of a catalog may carry beside its FQN: every owner with every
\* description, and every tag list with every column list
CatalogProfiles ==
    { [owner |-> o, description |-> d, tags |-> <<>>, columns |-> <<>>] :
        o \in {None, Some(""), Some("alice.data")},
        d \in {None, Some(""), Some("Orders")} }
    \cup
    { [owner |-> None, description |-> None, tags |-> t, columns |-> c] :
        t \in {<<>>, <<"Classification.Internal">>, <<"PII.Sensitive">>},
        c \in {<<>>, <<Column("order_id", Some("INT"))>>,
               <<ScoreColumn("email", Some("VARCHAR"), "Customer email", <<"PII">>)>>} }

\* the 10 tables of the scenario of spec section 8: 4 with owners, 3 with descriptions
ScenarioCatalog ==
    [i \in 1..10 |->
        CatalogTable(CatalogFQN(i),
                     IF i <= 4 THEN Some("alice.data") ELSE None,
                     IF i \in 3..5 THEN Some("Orders") ELSE None,
                     <<>>, <<>>)]

Catalogs ==
    { [i \in 1..Len(ps) |-> CatalogTable(CatalogFQN(i), ps[i].owner, ps[i].description,
                                         ps[i].tags, ps[i].columns)] :
        ps \in UNION { [1..k -> CatalogProfiles] : k \in 0..MaxTables } }
    \cup {ScenarioCatalog}

\* the contracts of a store the GovernanceEngine may be handed: the contract
\* create_contract builds, with any classification string, in any status
CatalogContract(fqn, status, classification) ==
    [NewContract(Table(fqn, <<>>), "alice.data", classification, "Orders",
                 "Supports Deliver business operations", <<>>, 24, FALSE, 0)
        EXCEPT !.status = status]

CatalogContracts ==
    UNION { [D -> { [status |-> st, classification |-> c] :
                        st \in {"draft", "active"}, c \in {"", "internal"} }] :
                D \in SUBSET FQNs }

CatalogStores ==
    { [f \in DOMAIN m |-> CatalogContract(f, m[f].status, m[f].classification)] :
        m \in CatalogContracts }

\* count / total * 100 if total > 0 else 0
Coverage(count, total) ==
    IF total > 0 THEN [num |-> count * 100, den |-> total] ELSE [num |-> 0, den |-> 1]

ownership_coverage(m) == Coverage(m.owned_assets, m.total_assets)
documentation_coverage(m) == Coverage(m.documented_assets, m.total_assets)
classification_coverage(m) == Coverage(m.classified_assets, m.total_assets)
contract_coverage(m) == Coverage(m.contracted_assets, m.total_assets)
compliance_rate(m) == Coverage(m.compliant_assets, m.total_assets)

\* calculate_governance_metrics counting the tables that have a contract
CalculateGovernanceMetrics_TablesContracted(tables, store) ==
    [total_assets |-> Len(tables),
     owned_assets |-> Len(SelectSeq(tables, HasOwner)),
     documented_assets |-> Len(SelectSeq(tables, LAMBDA t : Truthy(t.description))),
     classified_assets |-> Len(SelectSeq(tables, LAMBDA t : t.tags # <<>>)),
     contracted_assets |->
         Len(SelectSeq(tables, LAMBDA t : t.fullyQualifiedName \in DOMAIN store)),
     compliant_assets |->
         Len(SelectSeq(tables, LAMBDA t :
                 /\ t.fullyQualifiedName \in DOMAIN store
                 /\ store[t.fullyQualifiedName].status = "active"
                 /\ store[t.fullyQualifiedName].classification # ""))]

\* the GovernanceMetrics of calculate_governance_metrics(tables, contracts)
CalculateGovernanceMetrics(tables, store) ==
    [total_assets |-> Len(tables),
     owned_assets |-> Len(SelectSeq(tables, HasOwner)),
     documented_assets |-> Len(SelectSeq(tables, LAMBDA t : Truthy(t.description))),
     classified_assets |-> Len(SelectSeq(tables, LAMBDA t : t.tags # <<>>)),
     contracted_assets |-> Cardinality(DOMAIN store),
     compliant_assets |->
         Len(SelectSeq(tables, LAMBDA t :
                 /\ t.fullyQualifiedName \in DOMAIN store
                 /\ store[t.fullyQualifiedName].status = "active"
                 /\ store[t.fullyQualifiedName].classification # ""))]

\* the fullyQualifiedName of each table of a list
FqnsOf(tables) == [i \in 1..Len(tables) |-> tables[i].fullyQualifiedName]

\* the dict of identify_governance_gaps(tables, contracts): five lists of FQNs in
\* the order of the tables
IdentifyGovernanceGaps(tables, store) ==
    [no_owner |-> FqnsOf(SelectSeq(tables, LAMBDA t : ~HasOwner(t))),
     no_description |-> FqnsOf(SelectSeq(tables, LAMBDA t : ~Truthy(t.description))),
     no_classification |-> FqnsOf(SelectSeq(tables, LAMBDA t : t.tags = <<>>)),
     no_contract |->
         FqnsOf(SelectSeq(tables, LAMBDA t : t.fullyQualifiedName \notin DOMAIN store)),
     contains_pii_unclassified |->
         FqnsOf(SelectSeq(tables, LAMBDA t :
                    /\ MentionsPII(t.tags)
                    /\ t.fullyQualifiedName \notin DOMAIN store))]

\* table.get("owner", {}).get("name", "Unassigned")
OwnerName(table) == Get(table.owner, "Unassigned")

\* f"{documented / tables * 100:.1f}": the percentage in tenths, rounded to the
\* nearest
DocumentationTenths(documented, tables) == (documented * 2000 + tables) \div (2 * tables)

\* the row of an owner: the counts over the tables filed under that owner
StewardshipRow(tables, owner) ==
    LET filed == SelectSeq(tables, LAMBDA t : OwnerName(t) = owner)
        documented == Len(SelectSeq(filed, LAMBDA t : Truthy(t.description)))
    IN  [Owner |-> owner,
         Total_Tables |-> Len(filed),
         Documented |-> documented,
         Documentation_pct |-> DocumentationTenths(documented, Len(filed)),
         Databases |-> {Database(filed[i].fullyQualifiedName) : i \in 1..Len(filed)}]

\* the row orders get_stewardship_report(tables) may return: one row per owner,
\* "Total Tables" descending; sort_values does not say how it orders rows of equal
\* "Total Tables"
GetStewardshipReport(tables) ==
    LET rows == {StewardshipRow(tables, OwnerName(tables[i])) : i \in 1..Len(tables)}
    IN  {report_rows \in [1..Cardinality(rows) -> rows] :
            \A i, j \in 1..Cardinality(rows) :
                i < j => /\ report_rows[i] # report_rows[j]
                         /\ report_rows[i].Total_Tables >= report_rows[j].Total_Tables}

InitGovernance ==
    /\ now = 0 /\ call = NoCall /\ ret = NoRet
    /\ NoScoring
    /\ NoThreads
    /\ scores = <<>>
    /\ report = None
    /\ catalog \in Catalogs
    /\ contracts \in CatalogStores

MeasureGovernance ==
    /\ report = None
    /\ report' = Some([op |-> "calculate_governance_metrics",
                       metrics |-> CalculateGovernanceMetrics(catalog, contracts)])
    /\ UNCHANGED <<storeVars, scoreVars, tierVars, catalog, scores>>

FindGovernanceGaps ==
    /\ report = None
    /\ report' = Some([op |-> "identify_governance_gaps",
                       gaps |-> IdentifyGovernanceGaps(catalog, contracts)])
    /\ UNCHANGED <<storeVars, scoreVars, tierVars, catalog, scores>>

\* without tables the DataFrame has no column "Total Tables" and sort_values raises
ReportStewardship ==
    /\ report = None
    /\ IF catalog = <<>>
       THEN report' = Some([op |-> "get_stewardship_report", raised |-> TRUE,
                            rows |-> <<>>])
       ELSE \E report_rows \in GetStewardshipReport(catalog) :
                report' = Some([op |-> "get_stewardship_report", raised |-> FALSE,
                                rows |-> report_rows])
    /\ UNCHANGED <<storeVars, scoreVars, tierVars, catalog, scores>>

NextGovernance == MeasureGovernance \/ FindGovernanceGaps \/ ReportStewardship

SpecGovernance == InitGovernance /\ [][NextGovernance]_vars

(***************************************************************************)
(* Properties of the GovernanceEngine.                                     *)
(***************************************************************************)
Measured == report # None /\ report[1].op = "calculate_governance_metrics"

\* the positions of the catalog whose table satisfies none of the given values
Having(field, absent) == {i \in 1..Len(catalog) : catalog[i][field] \notin absent}

\* a percentage held as a fraction is count / total * 100
IsPercentage(fraction, count, total) ==
    /\ fraction.den > 0
    /\ fraction.num * total = count * 100 * fraction.den

\* C14: calculate_governance_metrics counts the tables (total), those with a
\* non-empty owner name (owned), description (documented) and tag list (classified),
\* the contracts of the map (contracted) and the tables whose FQN has an active
\* contract with a non-empty classification (compliant); each coverage is
\* count / total * 100, and 0 when there is no table.  With no contract and 10 tables,
\* 4 owned and 3 described: total 10, owned 4, documented 3, contracted 0,
\* compliant 0, ownership_coverage 40.
C14_GovernanceMetrics ==
    Measured =>
        LET m == report[1].metrics
            n == Len(catalog)
            compliant == {i \in 1..n :
                             LET f == catalog[i].fullyQualifiedName
                             IN  /\ f \in DOMAIN contracts
                                 /\ contracts[f].status = "active"
                                 /\ contracts[f].classification # ""}
            coverages ==
                << <<ownership_coverage(m), m.owned_assets>>,
                   <<documentation_coverage(m), m.documented_assets>>,
                   <<classification_coverage(m), m.classified_assets>>,
                   <<contract_coverage(m), m.contracted_assets>>,
                   <<compliance_rate(m), m.compliant_assets>> >>
        IN  /\ m.total_assets = n
            /\ m.owned_assets = Cardinality(Having("owner", {None, Some("")}))
            /\ m.documented_assets = Cardinality(Having("description", {None, Some("")}))
            /\ m.classified_assets = Cardinality(Having("tags", {<<>>}))
            /\ m.contracted_assets = Cardinality(DOMAIN contracts)
            /\ m.compliant_assets = Cardinality(compliant)
            /\ \A k \in 1..5 :
                   IF n = 0 THEN coverages[k][1].num = 0
                   ELSE IsPercentage(coverages[k][1], coverages[k][2], n)
            /\ (catalog = ScenarioCatalog /\ contracts = << >>) =>
                   /\ m.total_assets = 10 /\ m.owned_assets = 4
                   /\ m.documented_assets = 3
                   /\ m.contracted_assets = 0 /\ m.compliant_assets = 0
                   /\ ownership_coverage(m).num = 40 * ownership_coverage(m).den

\* the metrics of a catalog with a compliant table, under a contract map that also
\* holds the contract of a table the catalog does not list
C14_Witness ==
    /\ Measured
    /\ report[1].metrics.compliant_assets = 1
    /\ report[1].metrics.contracted_assets = 2
    /\ report[1].metrics.total_assets = 1

GapsFound == report # None /\ report[1].op = "identify_governance_gaps"

\* C19: the fifth gap list holds the FQN of a table if and only if the table has a
\* column carrying a PII tag and its FQN has no contract; every FQN of the fifth
\* list is in the no_contract list.
C19_PiiGap ==
    GapsFound =>
        LET gaps == report[1].gaps
            pii == {i \in 1..Len(catalog) :
                       /\ \E c \in 1..Len(catalog[i].columns) :
                              MentionsPII(catalog[i].columns[c].tags)
                       /\ catalog[i].fullyQualifiedName \notin DOMAIN contracts}
        IN  /\ Range(gaps.contains_pii_unclassified) =
                   {catalog[i].fullyQualifiedName : i \in pii}
            /\ Range(gaps.contains_pii_unclassified) \subseteq Range(gaps.no_contract)

(***************************************************************************)
(* Properties of the component scorers.                                    *)
(***************************************************************************)
Scored == asset # None /\ trust # None

\* the scored table has no contract, owner, description or tags and was last
\* updated 200 hours before it was scored
Neglected ==
    /\ Scored
    /\ asset[1].fullyQualifiedName \notin DOMAIN contracts
    /\ asset[1].owner = None
    /\ asset[1].description = None
    /\ asset[1].tags = <<>>
    /\ asset[1].updatedAt = Some([valid |-> TRUE, minutes |-> now - 200 * 60])

\* what C15 says of a neglected table beside its documentation score
NeglectedScores ==
    /\ trust[1].contract_availability_score = 0
    /\ trust[1].freshness_score = Points(20)
    /\ trust[1].composite_trust_score < CompositePoints(40)
    /\ trust[1].trust_level = "Needs Attention"

\* C15 as claimed: a table with no contract, owner, description and tags, updated 200
\* hours ago, whatever its columns and row count, scores contract_availability 0,
\* documentation at most 10, freshness 20, a composite below 40 and the tier
\* 'Needs Attention'.
C15_NeglectedTable ==
    Neglected => NeglectedScores /\ trust[1].documentation_score <= Points(10)

\* C15 as amended: such a table scores contract_availability 0, freshness 20, a
\* composite below 40, the tier 'Needs Attention', and documentation at most 30:
\* 0 when none of its columns carries a description.
C15_NeglectedTableDescribedColumns ==
    Neglected =>
        /\ NeglectedScores
        /\ trust[1].documentation_score <= Points(30)
        /\ (\A i \in 1..Len(asset[1].columns) : asset[1].columns[i].description = "")
               => trust[1].documentation_score = 0

\* a neglected table with many rows, all of whose columns carry a description
C15_Witness ==
    /\ Neglected
    /\ asset[1].rowCount = Some(100001)
    /\ asset[1].columns # <<>>
    /\ trust[1].documentation_score = Points(30)

\* the scored table carries an update timestamp the source can convert
Timed == Scored /\ asset[1].updatedAt # None /\ asset[1].updatedAt[1].valid

\* the bin of an elapsed time e, the hour being per units of e
FreshnessBin(e, per) ==
    IF e <= 1 * per THEN 100
    ELSE IF e <= 6 * per THEN 95
    ELSE IF e <= 24 * per THEN 85
    ELSE IF e <= 48 * per THEN 70
    ELSE IF e <= 168 * per THEN 50
    ELSE 20

\* the freshness score is 0 without a timestamp the source can convert
UntimedIsZero == (Scored /\ ~Timed) => trust[1].freshness_score = 0

\* C16 as claimed: the freshness score is 0 without a timestamp or with one that
\* cannot be converted, and otherwise is given by the whole hours h elapsed since the
\* update: h<=1 -> 100, h<=6 -> 95, h<=24 -> 85, h<=48 -> 70, h<=168 -> 50, else 20.
C16_FreshnessByWholeHours ==
    /\ UntimedIsZero
    /\ Timed =>
           trust[1].freshness_score =
               Points(FreshnessBin((now - asset[1].updatedAt[1].minutes) \div 60, 1))

\* C16 as amended: the freshness score is 0 without a timestamp or with one that
\* cannot be converted, and otherwise is given by the time elapsed since the update,
\* fractions of an hour included: up to 1 hour -> 100, up to 6 -> 95, up to 24 -> 85,
\* up to 48 -> 70, up to 168 -> 50, more -> 20; so a table updated longer ago never
\* scores higher.
C16_FreshnessByElapsedTime ==
    /\ UntimedIsZero
    /\ Timed =>
           LET elapsed == now - asset[1].updatedAt[1].minutes
           IN  /\ trust[1].freshness_score = Points(FreshnessBin(elapsed, 60))
               /\ \A e \in ElapsedSamples :
                      e >= elapsed =>
                          CalculateFreshnessScore(
                              [asset[1] EXCEPT !.updatedAt =
                                  Some([valid |-> TRUE, minutes |-> now - e])], now)
                              <= trust[1].freshness_score

\* a table updated an hour and a half before it was scored
C16_Witness ==
    /\ Timed
    /\ now - asset[1].updatedAt[1].minutes = 90
    /\ trust[1].freshness_score = Points(95)

Contracted == Scored /\ asset[1].fullyQualifiedName \in DOMAIN contracts

\* the bonus C17 gives each of the four statuses; none for another status value
Bonus(status) ==
    CASE status = "active" -> 35
      [] status = "review" -> 25
      [] status = "draft" -> 10
      [] status = "deprecated" -> 5
      [] OTHER -> 0

\* the points of the SLA and of the schema of the contract of the scored table
Extras ==
    LET contract == contracts[asset[1].fullyQualifiedName]
    IN  (IF contract.sla_requirements.freshness_hours # None THEN 15 ELSE 0)
            + (IF contract.schema_definition # <<>> THEN 10 ELSE 0)

\* the contract availability score of the scored table once update_contract_status
\* has given its contract the status
AvailabilityIn(status) ==
    CalculateContractAvailabilityScore(
        asset[1],
        [contracts EXCEPT ![asset[1].fullyQualifiedName] =
            StatusUpdated(@, status, "alice.data", "", now)])

\* without a contract the score is 0; draft -> review -> active raises it
AvailabilityRises ==
    /\ (Scored /\ ~Contracted) => trust[1].contract_availability_score = 0
    /\ Contracted =>
           /\ AvailabilityIn("draft") < AvailabilityIn("review")
           /\ AvailabilityIn("review") < AvailabilityIn("active")

\* C17 as claimed: the contract availability score is 0 without a contract and
\* otherwise 40 + the bonus of the status (active 35, review 25, draft 10,
\* deprecated 5) + 15 with an SLA freshness-hours value + 10 with a non-empty
\* schema_definition; draft -> review -> active strictly raises it and no contracted
\* table scores less than it does once deprecated.
C17_AvailabilityByStatus ==
    /\ AvailabilityRises
    /\ Contracted =>
           LET status == contracts[asset[1].fullyQualifiedName].status
           IN  /\ status \in Statuses =>
                      trust[1].contract_availability_score =
                          Points(40 + Bonus(status) + Extras)
               /\ AvailabilityIn("deprecated") <= trust[1].contract_availability_score

\* C17 as amended: the score is 0 without a contract and otherwise 40 + the bonus of
\* the status + 15 with an SLA + 10 with a schema, the bonus being 35, 25, 10, 5 for
\* active, review, draft, deprecated and 0 for any other status value;
\* draft -> review -> active strictly raises it; deprecated is the lowest score the
\* contract can have under the four statuses, and a contract in another status
\* scores lower still.
C17_AvailabilityByStatusOrNone ==
    /\ AvailabilityRises
    /\ Contracted =>
           LET status == contracts[asset[1].fullyQualifiedName].status
           IN  /\ trust[1].contract_availability_score =
                      Points(40 + Bonus(status) + Extras)
               /\ status \in Statuses =>
                      AvailabilityIn("deprecated") <= trust[1].contract_availability_score
               /\ status \notin Statuses =>
                      trust[1].contract_availability_score < AvailabilityIn("deprecated")

\* a contract in a status that is none of the four, without SLA and schema
C17_Witness ==
    /\ Contracted
    /\ contracts[asset[1].fullyQualifiedName].status = "archived"
    /\ trust[1].contract_availability_score = Points(40)

\* the optional fields of a table, the value of a missing one, the values of a
\* present one
OptionalFields == {"owner", "description", "tags", "rowCount", "updatedAt", "columns"}
Missing(field) == IF field \in {"tags", "columns"} THEN <<>> ELSE None
Present(field) ==
    CASE field = "owner" -> {Some("alice.data")}
      [] field = "description" -> {Some("Orders"), Some("This table contains Deliver data")}
      [] field = "tags" -> {<<"Tier.Tier1">>, <<"Classification.Internal">>}
      [] field = "rowCount" -> {Some(500), Some(100001)}
      [] field = "updatedAt" -> UpdatedAtSamples \ {None}
      [] field = "columns" -> { <<c>> : c \in ScoreColumnPool }

\* the component scores of the scored table with the field set to v
ComponentsWith(field, v) ==
    Components(CalculateTrustScore([asset[1] EXCEPT ![field] = v], contracts, now))

\* the field is missing from the scored table, and the components ks score no more
\* than with any value of the field
WorstWhenMissing(field, ks) ==
    asset[1][field] = Missing(field) =>
        \A v \in Present(field) :
            LET with == ComponentsWith(field, v)
            IN  \A k \in ks : Components(trust[1])[k] <= with[k]

\* a score was returned, and a table with nothing but its name gets the base
\* points only
Returned ==
    /\ trust[1].fqn = asset[1].fullyQualifiedName
    /\ trust[1].trust_level \in {TRUST_LEVELS[i].level : i \in 1..Len(TRUST_LEVELS)}
    /\ (asset[1] = BareTable /\ contracts = << >>) =>
           Components(trust[1]) = <<Points(20), 0, 0, 0, 0, Points(20)>>

\* C18 as claimed: calculate_trust_score returns a score for every table, whatever
\* optional fields are missing, under every contract map, and a missing field
\* contributes nothing: no component scores more than it does with the field present.
C18_ScoringTotal ==
    Scored => Returned /\ \A field \in OptionalFields : WorstWhenMissing(field, 1..6)

\* C18 as amended: calculate_trust_score returns a score for every table and every
\* contract map; a missing owner, description, tag list, row count or update
\* timestamp contributes nothing; a table without columns gets no column points in
\* data quality and documentation, but counts as free of PII and gets the 20 points
\* of a table whose columns carry no PII tag in security and compliance.
C18_ScoringTotalNoColumns ==
    Scored =>
        /\ Returned
        /\ \A field \in OptionalFields \ {"columns"} : WorstWhenMissing(field, 1..6)
        /\ WorstWhenMissing("columns", 1..5)
        /\ asset[1].columns = <<>> =>
               Components(trust[1])[6] =
                   ComponentsWith("columns", <<Column("order_id", Some("INT"))>>)[6]

\* a table with nothing but its name was scored under an empty contract map
C18_Witness ==
    /\ Scored
    /\ asset[1] = BareTable
    /\ contracts = << >>
    /\ trust[1].composite_trust_score = Points(20) * 25 + Points(20) * 10

(***************************************************************************)
(* get_trust_score_summary applied to a list of DataTrustScore.  A mean    *)
(* sum / count is held as the exact fraction [num, den]; the source        *)
(* computes it in floating point.                                          *)
(***************************************************************************)
MaxScores == 3   \* trust scores of a list handed to get_trust_score_summary

\* the composites of the list: each side of the bounds 40 and 75 of the summary,
\* and 100
SummaryComposites ==
    { CompositePoints(40) - 1, CompositePoints(40), CompositePoints(75) - 1,
      CompositePoints(75), CompositePoints(100) }

\* the DataTrustScore calculate_trust_score returns for a table of the database,
\* as far as the summary reads it
SummaryScore(database, composite) ==
    [fqn |-> database \o ".raw.orders", database |-> database,
     composite_trust_score |-> composite, trust_level |-> TrustLevel(composite)]

ScoreLists ==
    UNION { [1..n -> { SummaryScore(d, c) : d \in {"Deliver", "Plan"},
                                            c \in SummaryComposites }] :
                n \in 0..MaxScores }

RECURSIVE SumSeq(_)
SumSeq(s) == IF s = <<>> THEN 0 ELSE s[1] + SumSeq(Tail(s))

\* sorted(): ascending
RECURSIVE Insert(_, _)
Insert(x, s) ==
    IF s = <<>> THEN <<x>>
    ELSE IF x < s[1] THEN <<x>> \o s
    ELSE <<s[1]>> \o Insert(x, Tail(s))
RECURSIVE Sorted(_)
Sorted(s) == IF s = <<>> THEN <<>> ELSE Insert(s[Len(s)], Sorted(SubSeq(s, 1, Len(s) - 1)))

\* sum(scores) / len(scores)
Mean(s) == [num |-> SumSeq(s), den |-> Len(s)]

\* the composites of the trust scores of a database, in the order of the list
CompositesOf(trust_scores, database) ==
    LET of == SelectSeq(trust_scores, LAMBDA ts : ts.database = database)
    IN  [i \in 1..Len(of) |-> of[i].composite_trust_score]

\* get_trust_score_summary taking the lower of the two central values of a list of
\* even length
GetTrustScoreSummary_LowerMedian(trust_scores) ==
    IF trust_scores = <<>> THEN << >>
    ELSE LET n == Len(trust_scores)
             composite_scores == [i \in 1..n |-> trust_scores[i].composite_trust_score]
         IN  [avg_score |-> Mean(composite_scores),
              max_score |-> CHOOSE x \in Range(composite_scores) :
                                \A y \in Range(composite_scores) : y <= x,
              min_score |-> CHOOSE x \in Range(composite_scores) :
                                \A y \in Range(composite_scores) : x <= y,
              median_score |-> Sorted(composite_scores)[((n - 1) \div 2) + 1],
              total_assets |-> n,
              level_distribution |->
                  [l \in {trust_scores[i].trust_level : i \in 1..n} |->
                      Len(SelectSeq(trust_scores, LAMBDA ts : ts.trust_level = l))],
              database_averages |->
                  [d \in {trust_scores[i].database : i \in 1..n} |->
                      Mean(CompositesOf(trust_scores, d))],
              high_trust_assets |->
                  Len(SelectSeq(composite_scores, LAMBDA c : c >= CompositePoints(75))),
              needs_attention_assets |->
                  Len(SelectSeq(composite_scores, LAMBDA c : c < CompositePoints(40)))]

\* the dict of get_trust_score_summary(trust_scores); {} for an empty list
GetTrustScoreSummary(trust_scores) ==
    IF trust_scores = <<>> THEN << >>
    ELSE LET n == Len(trust_scores)
             composite_scores == [i \in 1..n |-> trust_scores[i].composite_trust_score]
         IN  [avg_score |-> Mean(composite_scores),
              max_score |-> CHOOSE x \in Range(composite_scores) :
                                \A y \in Range(composite_scores) : y <= x,
              min_score |-> CHOOSE x \in Range(composite_scores) :
                                \A y \in Range(composite_scores) : x <= y,
              median_score |-> Sorted(composite_scores)[(n \div 2) + 1],
              total_assets |-> n,
              level_distribution |->
                  [l \in {trust_scores[i].trust_level : i \in 1..n} |->
                      Len(SelectSeq(trust_scores, LAMBDA ts : ts.trust_level = l))],
              database_averages |->
                  [d \in {trust_scores[i].database : i \in 1..n} |->
                      Mean(CompositesOf(trust_scores, d))],
              high_trust_assets |->
                  Len(SelectSeq(composite_scores, LAMBDA c : c >= CompositePoints(75))),
              needs_attention_assets |->
                  Len(SelectSeq(composite_scores, LAMBDA c : c < CompositePoints(40)))]

InitSummary ==
    /\ contracts = << >> /\ now = 0 /\ call = NoCall /\ ret = NoRet
    /\ NoScoring
    /\ NoThreads
    /\ catalog = <<>>
    /\ report = None
    /\ scores \in ScoreLists

SummarizeTrustScores ==
    /\ report = None
    /\ report' = Some([op |-> "get_trust_score_summary",
                       summary |-> GetTrustScoreSummary(scores)])
    /\ UNCHANGED <<storeVars, scoreVars, tierVars, catalog, scores>>

SpecSummary == InitSummary /\ [][SummarizeTrustScores]_vars

(***************************************************************************)
(* Properties of the summary.                                              *)
(***************************************************************************)
Summarized == report # None /\ report[1].op = "get_trust_score_summary"

\* C20: for n > 0 trust scores, median_score is the element at index floor(n/2) of
\* the composites sorted ascending (floor(n/2) composites or fewer are smaller, more
\* than floor(n/2) are no larger; of two composites it is the larger, not their
\* mean), min_score <= median_score <= max_score, high_trust_assets counts the
\* composites >= 75, needs_attention_assets those < 40, and the counts per tier sum
\* to n; for an empty list the summary is empty.
C20_Summary ==
    Summarized =>
        LET n == Len(scores)
            sm == report[1].summary
            c == [i \in 1..n |-> scores[i].composite_trust_score]
        IN  IF n = 0 THEN sm = << >>
            ELSE /\ sm.median_score \in Range(c)
                 /\ Cardinality({i \in 1..n : c[i] < sm.median_score}) <= n \div 2
                 /\ Cardinality({i \in 1..n : c[i] <= sm.median_score}) > n \div 2
                 /\ n = 2 => sm.median_score = IF c[1] >= c[2] THEN c[1] ELSE c[2]
                 /\ sm.min_score \in Range(c) /\ \A i \in 1..n : sm.min_score <= c[i]
                 /\ sm.max_score \in Range(c) /\ \A i \in 1..n : c[i] <= sm.max_score
                 /\ sm.min_score <= sm.median_score
                 /\ sm.median_score <= sm.max_score
                 /\ sm.high_trust_assets =
                        Cardinality({i \in 1..n : c[i] >= CompositePoints(75)})
                 /\ sm.needs_attention_assets =
                        Cardinality({i \in 1..n : c[i] < CompositePoints(40)})
                 /\ SumLen(DOMAIN sm.level_distribution, sm.level_distribution) = n

\* the summary of two scores, one of high trust and one needing attention: the
\* median is the higher composite
C20_Witness ==
    /\ Summarized
    /\ Len(scores) = 2
    /\ report[1].summary.high_trust_assets = 1
    /\ report[1].summary.needs_attention_assets = 1
    /\ report[1].summary.median_score = report[1].summary.max_score
    /\ report[1].summary.min_score < report[1].summary.max_score

(***************************************************************************)
(* The store together with the components that derive reports from it: the *)
(* detector, calculate_trust_score and the GovernanceEngine read the        *)
(* contract map the store's operations write.  One table, one consumer.    *)
(***************************************************************************)
\* the table the reports are taken of, and the catalogs that list it
ReadOnlyTables == {FullTable}
ReadOnlyCatalogs == {<< >>, <<FullTable>>}

InitReadOnly ==
    /\ contracts = << >>
    /\ now = ScoreTime
    /\ call = NoCall
    /\ ret = NoRet
    /\ composites = <<0, 0>> /\ levels = None
    /\ NoThreads
    /\ trust = None
    /\ scores = <<>>
    /\ report = None
    /\ asset \in { Some(t) : t \in ReadOnlyTables }
    /\ catalog \in ReadOnlyCatalogs

NextReadOnly ==
    \/ \E cols \in StoreColumns, o \in Users, contains_pii \in BOOLEAN :
           CreateContract(Table(ScoreFQN, cols), o, contains_pii)
    \/ \E s \in {"active", "deprecated"}, u \in Users :
           UpdateContractStatus(ScoreFQN, s, u, "")
    \/ RegisterConsumer(ScoreFQN, "ML", "ml@co")
    \/ DetectSchemaChanges(ScoreFQN, asset[1])
    \/ ScoreAsset
    \/ MeasureGovernance
    \/ FindGovernanceGaps

SpecReadOnly == InitReadOnly /\ [][NextReadOnly]_vars

\* the step ends in a detection, a scoring or a report of the GovernanceEngine
Derived ==
    \/ call'.op = "detect_schema_changes"
    \/ trust' # trust
    \/ report' # report

\* C21: detect_schema_changes, the scorers, calculate_trust_score,
\* calculate_governance_metrics and identify_governance_gaps leave the table
\* records and the contract map (its key set and every field of every contract,
\* change_log included) as they were; a step that changes a contract is a
\* create_contract, an update_contract_status or a register_consumer.
C21_ReadOnly ==
    /\ [][Derived => contracts' = contracts /\ asset' = asset /\ catalog' = catalog]_vars
    /\ [][contracts' # contracts =>
              call'.op \in {"create_contract", "update_contract_status",
                            "register_consumer"}]_vars

\* a contract with a status change and a consumer in its log was scored, measured
\* and then checked for drift, which was found
C21_Witness ==
    /\ call.op = "detect_schema_changes"
    /\ ret.changes # <<>>
    /\ trust # None
    /\ report # None
    /\ ScoreFQN \in DOMAIN contracts
    /\ Len(contracts[ScoreFQN].change_log) = 3
    /\ contracts[ScoreFQN].registered_consumers # <<>>
    /\ contracts[ScoreFQN].approval_history # <<>>

(***************************************************************************)
(* Properties of the data quality scorer.                                  *)
(***************************************************************************)
\* a column's data type is known: set, non-empty and not "UNKNOWN"
KnownType(c) == c.dataType # None /\ c.dataType[1] \notin {"", "UNKNOWN"}

\* C22: the data quality score is 20, + 30 if the table's contract has a quality
\* rule, + 20 if the table has a column, + 30 * (columns whose data type is known) /
\* (columns), capped at 100; a column whose data type is unset, empty or "UNKNOWN"
\* adds nothing to the last term.
C22_DataQuality ==
    Scored =>
        LET table == asset[1]
            fqn == table.fullyQualifiedName
            n == Len(table.columns)
            known == Cardinality({i \in 1..n : KnownType(table.columns[i])})
            rules == IF fqn \in DOMAIN contracts /\ contracts[fqn].quality_rules # <<>>
                     THEN 30 ELSE 0
            schema == IF n > 0 THEN 20 ELSE 0
            \* n * score, so that the type-coverage term stays a whole number
            claimed == n * Points(20 + rules + schema) + known * Points(30)
        IN  IF n = 0 THEN trust[1].data_quality_score = Points(20 + rules)
            ELSE n * trust[1].data_quality_score = Min(claimed, n * Points(100))

(***************************************************************************)
(* Properties of the stewardship report.                                   *)
(***************************************************************************)
StewardshipReported ==
    report # None /\ report[1].op = "get_stewardship_report" /\ ~report[1].raised

\* C23: the stewardship report files every table under one owner row (no owner has
\* two rows, the 'Total Tables' sum to the number of tables); the tables
\* calculate_governance_metrics counts as not owned, those whose owner name is
\* absent or empty, are all filed under the row 'Unassigned'; 'Documented' <=
\* 'Total Tables' in every row; the rows are in descending order of 'Total Tables'.
C23_Stewardship ==
    StewardshipReported =>
        LET rows == report[1].rows
            n == Len(rows)
            unowned == {i \in 1..Len(catalog) : ~HasOwner(catalog[i])}
        IN  /\ \A i, j \in 1..n : rows[i].Owner = rows[j].Owner => i = j
            /\ SumLen(1..n, [i \in 1..n |-> rows[i].Total_Tables]) = Len(catalog)
            /\ unowned # {} =>
                   \E i \in 1..n : /\ rows[i].Owner = "Unassigned"
                                   /\ rows[i].Total_Tables = Cardinality(unowned)
            /\ \A i \in 1..n : rows[i].Documented <= rows[i].Total_Tables
            /\ \A i, j \in 1..n : i < j => rows[i].Total_Tables >= rows[j].Total_Tables

(***************************************************************************)
(* register_consumer called by two threads on one engine.  A thread may be *)
(* suspended between any two statements of the method, so the membership   *)
(* test, the append to registered_consumers and the append to change_log   *)
(* are steps of their own.  alone records that no other thread was inside  *)
(* the method when the thread entered it.                                  *)
(***************************************************************************)
\* consumer_info in contract.registered_consumers, never true
Listed_Never(contract, consumer_info) == FALSE

\* consumer_info in contract.registered_consumers
Listed(contract, consumer_info) == consumer_info \in Range(contract.registered_consumers)

Inside(t) == threads[t].pc \notin {"idle", "done"}

\* the not-found test and the membership test
RcCheck(t, fqn, consumer_name, consumer_contact) ==
    LET entered == [threads[t] EXCEPT !.fqn = fqn, !.consumer_name = consumer_name,
                                      !.consumer_contact = consumer_contact,
                                      !.alone = \A u \in Threads \ {t} : ~Inside(u)]
    IN  /\ threads[t].pc = "idle"
        /\ threads' = [threads EXCEPT ![t] =
               IF fqn \notin DOMAIN contracts
               THEN [entered EXCEPT !.pc = "done", !.ok = FALSE]
               ELSE IF Listed(contracts[fqn], ConsumerInfo(consumer_name, consumer_contact))
               THEN [entered EXCEPT !.pc = "done", !.ok = TRUE]
               ELSE [entered EXCEPT !.pc = "append"]]
        /\ UNCHANGED <<contracts, now, call, ret, scoreVars, tierVars, reportVars>>

\* contract.registered_consumers.append(consumer_info)
RcAppend(t) ==
    /\ threads[t].pc = "append"
    /\ contracts' = [contracts EXCEPT ![threads[t].fqn].registered_consumers =
           Append(@, ConsumerInfo(threads[t].consumer_name, threads[t].consumer_contact))]
    /\ threads' = [threads EXCEPT ![t].pc = "log"]
    /\ UNCHANGED <<now, call, ret, scoreVars, tierVars, reportVars>>

\* contract.change_log.append({...}); return True
RcLog(t) ==
    /\ threads[t].pc = "log"
    /\ contracts' = [contracts EXCEPT ![threads[t].fqn].change_log =
           Append(@, [timestamp |-> now, action |-> "consumer_registered",
                      user |-> threads[t].consumer_contact,
                      details |-> "Consumer registered: " \o threads[t].consumer_name])]
    /\ threads' = [threads EXCEPT ![t].pc = "done", ![t].ok = TRUE]
    /\ UNCHANGED <<now, call, ret, scoreVars, tierVars, reportVars>>

\* the engine holds the contract create_contract built for one table
InitConcurrent ==
    /\ contracts = (DetectFQN :>
           NewContract(Table(DetectFQN, <<>>), "alice.data", "internal", "Orders",
                       "Supports Deliver business operations", <<>>, 24, FALSE, 0))
    /\ now = 0
    /\ call = NoCall
    /\ ret = NoRet
    /\ NoScoring
    /\ NoReport
    /\ NoThreads

NextConcurrent ==
    \/ \E t \in Threads, f \in FQNs, n \in ConsumerNames, c \in ConsumerContacts :
           RcCheck(t, f, n, c)
    \/ \E t \in Threads : RcAppend(t)
    \/ \E t \in Threads : RcLog(t)

SpecConcurrent == InitConcurrent /\ [][NextConcurrent]_vars

\* both threads returned from a call with the same fqn, name and contact, on a
\* table that has a contract
SameCallsDone ==
    /\ \A t \in Threads : threads[t].pc = "done"
    /\ \A t, u \in Threads :
           /\ threads[t].fqn = threads[u].fqn
           /\ threads[t].consumer_name = threads[u].consumer_name
           /\ threads[t].consumer_contact = threads[u].consumer_contact
    /\ threads[1].fqn \in DOMAIN contracts

\* how often a list holds a value
Occurrences(list, P) == Cardinality({i \in 1..Len(list) : list[i] = P})

\* C24: two register_consumer calls with the same (fqn, name, contact), the test
\* and the appends being steps of their own, both return true and leave the pair
\* listed once or twice, with as many consumer_registered log entries: once
\* whenever one call ran after the other, and twice in some interleaving.
C24_ConcurrentRegister ==
    SameCallsDone =>
        LET contract == contracts[threads[1].fqn]
            info == ConsumerInfo(threads[1].consumer_name, threads[1].consumer_contact)
            listed == Occurrences(contract.registered_consumers, info)
        IN  /\ \A t \in Threads : threads[t].ok
            /\ Len(contract.registered_consumers) = listed
            /\ listed \in {1, 2}
            /\ Len(contract.change_log) = 1 + listed
            /\ (\A t \in Threads : threads[t].alone) => listed = 1

\* two interleaved calls with the same arguments left the pair listed twice, with
\* two consumer_registered log entries
C24_Witness ==
    /\ SameCallsDone
    /\ contracts[threads[1].fqn].registered_consumers =
           << ConsumerInfo(threads[1].consumer_name, threads[1].consumer_contact),
              ConsumerInfo(threads[1].consumer_name, threads[1].consumer_contact) >>
    /\ Len(contracts[threads[1].fqn].change_log) = 3
    /\ contracts[threads[1].fqn].change_log[2].action = "consumer_registered"
    /\ contracts[threads[1].fqn].change_log[3].action = "consumer_registered"

(***************************************************************************)
(* Invariants of the contracts the store's operations leave.               *)
(***************************************************************************)
\* C25: a contract whose status is active has a non-empty approval_history, and a
\* contract whose approval_history is empty has never been active: it is not
\* active and its change_log records no change to active.
C25_ActiveIsApproved ==
    \A f \in DOMAIN contracts :
        /\ contracts[f].status = "active" => contracts[f].approval_history # <<>>
        /\ contracts[f].approval_history = <<>> =>
               /\ contracts[f].status # "active"
               /\ ActiveUpdates(contracts[f].change_log) = 0

\* an active contract with its approval beside a contract that was never activated
C25_Witness ==
    \E f, g \in DOMAIN contracts :
        /\ contracts[f].status = "active"
        /\ Len(contracts[f].approval_history) = 1
        /\ contracts[g].status = "draft"
        /\ contracts[g].approval_history = <<>>

\* the status_change entries of a log, in order
StatusChanges(log) == SelectSeq(log, LAMBDA e : e.action = "status_change")

\* the entries record a chain of changes that starts at the status from and ends at
\* the status last: each entry reads 'old -> new' with old the status before it
RECURSIVE Chained(_, _, _)
Chained(entries, from, last) ==
    IF entries = <<>> THEN from = last
    ELSE \E new \in StatusValues :
             /\ entries[1].details = from \o " -> " \o new
             /\ Chained(Tail(entries), new, last)

\* C26: the change_log of a contract starts with its 'created' entry, and its
\* status_change entries chain from draft to the current status: the 'old' of the
\* first is draft, the 'old' of every other is the 'new' of the one before, and the
\* 'new' of the last is the status of the contract (draft when there is none).
C26_LogMatchesStatus ==
    \A f \in DOMAIN contracts :
        LET log == contracts[f].change_log
        IN  /\ log # <<>>
            /\ log[1].action = "created"
            /\ \A i \in 2..Len(log) : log[i].action # "created"
            /\ Chained(StatusChanges(log), "draft", contracts[f].status)

\* a contract that left draft and returned to it
C26_Witness ==
    \E f \in DOMAIN contracts :
        /\ contracts[f].status = "draft"
        /\ Len(StatusChanges(contracts[f].change_log)) = 2
        /\ contracts[f].change_log[2].details = "draft -> deprecated"
        /\ contracts[f].change_log[3].details = "deprecated -> draft"

(***************************************************************************)
(* Bounds of the governance counts.                                        *)
(***************************************************************************)
\* C27: for tables with unique FQNs and any contract map, the owned, documented,
\* classified, contracted and compliant counts are each at most total_assets,
\* compliant is at most contracted, and the five coverages lie in [0,100].
C27_CountsBounded ==
    Measured =>
        LET m == report[1].metrics
            counts == << m.owned_assets, m.documented_assets, m.classified_assets,
                         m.contracted_assets, m.compliant_assets >>
            coverages == << ownership_coverage(m), documentation_coverage(m),
                            classification_coverage(m), contract_coverage(m),
                            compliance_rate(m) >>
        IN  /\ \A k \in 1..5 : 0 <= counts[k] /\ counts[k] <= m.total_assets
            /\ m.compliant_assets <= m.contracted_assets
            /\ \A k \in 1..5 : /\ coverages[k].den > 0
                               /\ 0 <= coverages[k].num
                               /\ coverages[k].num <= 100 * coverages[k].den

(***************************************************************************)
(* The snapshot and the detector on one table that keeps its columns: the  *)
(* contract is created of the table, its status is updated, consumers are  *)
(* registered, and the table is checked for drift.                         *)
(***************************************************************************)
\* column lists of the table: up to MaxCols columns of the pool, with or without a
\* data type, names repeated or not
RoundTripColumns == UNION { [1..n -> ColumnPool] : n \in 0..MaxCols }

InitRoundTrip ==
    /\ contracts = << >>
    /\ now = 0
    /\ call = NoCall
    /\ ret = NoRet
    /\ asset \in { Some(Table(DetectFQN, cols)) : cols \in RoundTripColumns }
    /\ trust = None
    /\ composites = <<0, 0>> /\ levels = None
    /\ NoReport
    /\ NoThreads

NextRoundTrip ==
    \/ Tick
    \/ \E o \in Users : CreateContract(asset[1], o, FALSE)
    \/ \E s \in {"review", "active"}, u \in Users :
           UpdateContractStatus(DetectFQN, s, u, "")
    \/ RegisterConsumer(DetectFQN, "ML", "ml@co")
    \/ DetectSchemaChanges(DetectFQN, asset[1])

SpecRoundTrip == InitRoundTrip /\ [][NextRoundTrip]_vars

\* C28: detect_schema_changes on the table a contract was created of returns the
\* empty list, right after create_contract and after any number of
\* update_contract_status and register_consumer calls, whatever the table's
\* columns: with or without a data type, or none at all.
C28_RoundTrip ==
    call.op = "detect_schema_changes" =>
        /\ call.columns = asset[1].columns
        /\ ret.changes = <<>>

\* a table with a column that has no data type was checked after its contract was
\* activated and a consumer was registered
C28_Witness ==
    /\ DetectDone
    /\ \E i \in 1..Len(call.columns) : call.columns[i].dataType = None
    /\ Len(contracts[call.fqn].change_log) = 3
    /\ contracts[call.fqn].status = "active"
    /\ contracts[call.fqn].registered_consumers # <<>>
    /\ ret.changes = <<>>

(***************************************************************************)
(* The scores of the contracts the store's operations leave.               *)
(***************************************************************************)
\* the contract after three more consumers have registered
RegisteredByThree(contract) ==
    ConsumerRegistered(
        ConsumerRegistered(
            ConsumerRegistered(contract, "BI", "bi@co", now),
            "Finance", "fin@co", now),
        "Ops", "ops@co", now)

\* C29: every contract the store's operations leave has an empty downstream_tables
\* list, no retention_days and an empty compliance_requirements list; so the
\* lineage & usage score of its table never exceeds 65 and the security &
\* compliance score never exceeds 75 (the retention and compliance-requirements
\* points are never given), however many consumers register.
C29_StoreContractScores ==
    /\ \A f \in DOMAIN contracts :
           /\ contracts[f].downstream_tables = <<>>
           /\ contracts[f].retention_days = None
           /\ contracts[f].compliance_requirements = <<>>
    /\ Contracted =>
           /\ trust[1].lineage_usage_score <= Points(65)
           /\ trust[1].security_compliance_score <= Points(75)
    /\ \A f \in DOMAIN contracts, table \in ReadOnlyTables :
           LET registered == [contracts EXCEPT ![f] = RegisteredByThree(@)]
           IN  /\ CalculateLineageUsageScore(table, registered) <= Points(65)
               /\ CalculateSecurityComplianceScore(table, registered) <= Points(75)

\* a table with PII columns, an owner and a classification was scored under an
\* active contract that flags PII and lists a consumer: security reaches 75, and
\* lineage reaches 65 once three consumers are registered
C29_Witness ==
    /\ Contracted
    /\ contracts[ScoreFQN].contains_pii
    /\ trust[1].security_compliance_score = Points(75)
    /\ trust[1].lineage_usage_score = Points(50)
    /\ CalculateLineageUsageScore(asset[1], [contracts EXCEPT ![ScoreFQN] =
                                                 RegisteredByThree(@)]) = Points(65)

(***************************************************************************)
(* calculate_all_trust_scores applied to a list of tables under a contract *)
(* map, and get_trust_score_summary applied to the list it returns.        *)
(***************************************************************************)
\* [self.calculate_trust_score(table, contracts, mock_gen) for table in tables]
CalculateAllTrustScores(tables, store, t) ==
    [i \in 1..Len(tables) |-> CalculateTrustScore(tables[i], store, t)]

\* the tables of a batch: nothing but a name, every field at its best, and two in
\* between
BatchTables ==
    { BareTable, FullTable,
      ScoreTable(<<Column("order_id", Some("INT"))>>, Some("alice.data"), <<>>,
                 Some("Orders"), Some([valid |-> TRUE, minutes |-> ScoreTime - 24 * 60]),
                 Some(500)),
      ScoreTable(<<Column("order_id", Some("INT"))>>, None, <<"Classification.Internal">>,
                 Some("This table contains Deliver data"),
                 Some([valid |-> TRUE, minutes |-> ScoreTime - 200 * 60]), None) }

InitBatch ==
    /\ now = ScoreTime /\ call = NoCall /\ ret = NoRet
    /\ NoScoring
    /\ NoThreads
    /\ scores = <<>>
    /\ report = None
    /\ catalog \in UNION { [1..n -> BatchTables] : n \in 0..MaxTables }
    /\ contracts \in CornerContracts

ScoreAll ==
    /\ scores = <<>>
    /\ report = None
    /\ scores' = CalculateAllTrustScores(catalog, contracts, now)
    /\ UNCHANGED <<storeVars, scoreVars, tierVars, catalog, report>>

NextBatch == ScoreAll \/ SummarizeTrustScores

SpecBatch == InitBatch /\ [][NextBatch]_vars

\* the positions of the scored list whose trust level is one of the given
AssetsAt(tiers) == {i \in 1..Len(scores) : scores[i].trust_level \in tiers}

\* C30: in the summary of a list that calculate_all_trust_scores returned,
\* needs_attention_assets is the number of assets whose trust_level is
\* 'Needs Attention' and high_trust_assets the number whose trust_level is Gold or
\* Platinum.
C30_SummaryMatchesTiers ==
    (Summarized /\ scores # <<>>) =>
        /\ report[1].summary.needs_attention_assets =
               Cardinality(AssetsAt({"Needs Attention"}))
        /\ report[1].summary.high_trust_assets =
               Cardinality(AssetsAt({"Gold", "Platinum"}))

====
